---------------------------- MODULE Spec2Model ----------------------------
(***************************************************************************)
(* Access control and session policy of the ERP backend (ai_erp/rbac.py,   *)
(* ai_erp/models.py): role permissions with wildcard patterns, the         *)
(* concurrent-session ceiling, the IP whitelist, the access-hours map and  *)
(* the view decorators that compose them.                                  *)
(*                                                                         *)
(* Permission strings are sequences of one-character strings, so that      *)
(* str.endswith, str.startswith and slicing are computed, not assumed.     *)
(* A Python dict is a function whose DOMAIN is its key set.  A call that   *)
(* can raise returns Ret(v) or Raise(e).                                   *)
(***************************************************************************)
EXTENDS Integers, Sequences, FiniteSets, TLC

\* ------------------------------------------------------------------ bounds
MaxStrLen == 2
MaxPatterns == 2
MaxSessions == 3
MaxPerms == 2
MaxWhitelist == 2

\* ------------------------------------------------------- strings and lists
Alphabet == {"a", "*"}

SeqUpTo(S, n) == UNION {[1..k -> S] : k \in 0..n}

GenStrings == SeqUpTo(Alphabet, MaxStrLen)

star == <<"*">>
drawing_star == <<"d","r","a","w","i","n","g",".","*">>
drawing_read == <<"d","r","a","w","i","n","g",".","r","e","a","d">>
drawing_upload == <<"d","r","a","w","i","n","g",".","u","p","l","o","a","d">>
drawingx_read == <<"d","r","a","w","i","n","g","x",".","r","e","a","d">>
simulation_read == <<"s","i","m","u","l","a","t","i","o","n",".","r","e","a","d">>
project_read == <<"p","r","o","j","e","c","t",".","r","e","a","d">>
reports_generate == <<"r","e","p","o","r","t","s",".","g","e","n","e","r","a","t","e">>
not_in_catalog == <<"x",".","y">>
project_star == <<"p","r","o","j","e","c","t",".","*">>
drawing_comment == <<"d","r","a","w","i","n","g",".","c","o","m","m","e","n","t">>
drawing_approve == <<"d","r","a","w","i","n","g",".","a","p","p","r","o","v","e">>
team_read == <<"t","e","a","m",".","r","e","a","d">>
ai_query == <<"a","i",".","q","u","e","r","y">>
simulation_star == <<"s","i","m","u","l","a","t","i","o","n",".","*">>
ai_advanced == <<"a","i",".","a","d","v","a","n","c","e","d">>
project_modify == <<"p","r","o","j","e","c","t",".","m","o","d","i","f","y">>
safety_analyze == <<"s","a","f","e","t","y",".","a","n","a","l","y","z","e">>
compliance_check == <<"c","o","m","p","l","i","a","n","c","e",".","c","h","e","c","k">>
drawing_analyze == <<"d","r","a","w","i","n","g",".","a","n","a","l","y","z","e">>
simulation_create == <<"s","i","m","u","l","a","t","i","o","n",".","c","r","e","a","t","e">>
simulation_run == <<"s","i","m","u","l","a","t","i","o","n",".","r","u","n">>
data_export == <<"d","a","t","a",".","e","x","p","o","r","t">>

\* str.endswith(c) for a one-character c
endswith(s, c) == Len(s) > 0 /\ s[Len(s)] = c

\* s[:-1]
but_last(s) == IF Len(s) = 0 THEN <<>> ELSE SubSeq(s, 1, Len(s) - 1)

\* str.startswith(p)
startswith(s, p) == Len(p) <= Len(s) /\ SubSeq(s, 1, Len(p)) = p

\* x in list
in_list(x, l) == \E i \in 1..Len(l) : l[i] = x

\* dict.get(k, default)
dict_get(d, k, default) == IF k \in DOMAIN d THEN d[k] ELSE default

\* Python's None
None == [py |-> "None"]

Ret(v) == [tag |-> "return", val |-> v]
Raise(e) == [tag |-> "raise", exc |-> e]


\* ------------------------------------------------------------------ state
VARIABLES
    roles,      \* ERPRole rows: role code -> [permissions]
    profiles,   \* UserERPProfile rows: user id -> profile row, or NoProfile
    sessions,   \* django Session rows
    clock,      \* minutes elapsed since a Monday 00:00
    request,    \* the request being served
    pc,         \* position of the request: [step, layer, i]
    response,   \* what the outermost wrapper returned
    invoked,    \* how many times the decorated view body ran
    db,         \* whether the database holding the three tables answers
    history     \* what happened before the call being served, oldest first

vars == <<roles, profiles, sessions, clock, request, pc, response, invoked,
          db, history>>

UserIds == {1, 2}

\* str(user.id), as stored under '_auth_user_id' in a session
str_id(id) == IF id = 1 THEN "u1" ELSE "u2"

NoProfile == [exists |-> FALSE]

AnonymousUser == [kind |-> "anonymous", id |-> 0, is_superuser |-> FALSE]

RealUser(id, su) == [kind |-> "user", id |-> id, is_superuser |-> su]

\* request.user.is_authenticated: True on a RejlersUser, False on AnonymousUser
is_authenticated(user) == user.kind = "user"

\* user.erp_profile, the reverse side of UserERPProfile.user: the related
\* descriptor answers from the user object once it has queried (hit or miss)
erp_profile(user) ==
    IF user.kind = "anonymous" THEN Raise("AttributeError")
    ELSE IF "erp_profile" \in DOMAIN user
    THEN IF user.erp_profile = NoProfile THEN Raise("DoesNotExist")
         ELSE Ret(user.erp_profile)
    ELSE IF db = "down" THEN Raise("OperationalError")
    ELSE IF profiles[user.id] = NoProfile THEN Raise("DoesNotExist")
    ELSE Ret(profiles[user.id])

\* ---------------------------------------------------- RoleBasedAccessControl
get_user_role(user) ==
    LET profile == erp_profile(user) IN
    IF profile.tag = "return"
    THEN Ret([code |-> profile.val.role,
              permissions |-> IF "role_row" \in DOMAIN profile.val
                              THEN profile.val.role_row.permissions
                              ELSE roles[profile.val.role].permissions])
    ELSE IF profile.exc = "DoesNotExist" THEN Ret(None)
    ELSE profile

get_user_permissions(user) ==
    LET role == get_user_role(user) IN
    IF role.tag = "raise" THEN role
    ELSE IF role.val /= None THEN Ret(role.val.permissions)
    ELSE Ret(<<>>)

\* has_permission without the exact-match test of line 56
has_permission_no_exact(user, permission) ==
    IF ~is_authenticated(user) THEN Ret(FALSE)
    ELSE IF user.is_superuser THEN Ret(TRUE)
    ELSE LET permissions == get_user_permissions(user) IN
         IF permissions.tag = "raise" THEN permissions
         ELSE IF in_list(star, permissions.val) THEN Ret(TRUE)
         ELSE Ret(\E i \in 1..Len(permissions.val) :
                     /\ endswith(permissions.val[i], "*")
                     /\ startswith(permission, but_last(permissions.val[i])))

\* has_permission without the is_superuser override of line 46
has_permission_no_superuser(user, permission) ==
    IF ~is_authenticated(user) THEN Ret(FALSE)
    ELSE LET permissions == get_user_permissions(user) IN
         IF permissions.tag = "raise" THEN permissions
         ELSE IF in_list(star, permissions.val) THEN Ret(TRUE)
         ELSE IF in_list(permission, permissions.val) THEN Ret(TRUE)
         ELSE Ret(\E i \in 1..Len(permissions.val) :
                     /\ endswith(permissions.val[i], "*")
                     /\ startswith(permission, but_last(permissions.val[i])))

has_permission(user, permission) ==
    IF ~is_authenticated(user) THEN Ret(FALSE)
    ELSE IF user.is_superuser THEN Ret(TRUE)
    ELSE LET permissions == get_user_permissions(user) IN
         IF permissions.tag = "raise" THEN permissions
         ELSE IF in_list(star, permissions.val) THEN Ret(TRUE)
         ELSE IF in_list(permission, permissions.val) THEN Ret(TRUE)
         ELSE Ret(\E i \in 1..Len(permissions.val) :
                     /\ endswith(permissions.val[i], "*")
                     /\ startswith(permission, but_last(permissions.val[i])))

\* ERPRole.has_permission without the trailing-'*' patterns of lines 32-35
role_has_permission_exact_only(permissions, permission) ==
    IF in_list(star, permissions) THEN TRUE
    ELSE in_list(permission, permissions)

\* ERPRole.has_permission
role_has_permission(permissions, permission) ==
    IF in_list(star, permissions) THEN TRUE
    ELSE \/ in_list(permission, permissions)
         \/ \E i \in 1..Len(permissions) :
               /\ endswith(permissions[i], "*")
               /\ startswith(permission, but_last(permissions[i]))

\* can_access_domain letting any wildcard pattern of the role open every domain
profile_can_access_domain_any_wildcard(profile, domain) ==
    \/ profile.primary_domain = domain
    \/ in_list(domain, profile.secondary_domains)
    \/ \E i \in DOMAIN roles[profile.role].permissions :
          endswith(roles[profile.role].permissions[i], "*")

\* UserERPProfile.can_access_domain
profile_can_access_domain(profile, domain) ==
    \/ profile.primary_domain = domain
    \/ in_list(domain, profile.secondary_domains)
    \/ role_has_permission(roles[profile.role].permissions, star)

\* can_access_domain failing open on a missing profile, as SessionManager does
can_access_domain_fail_open(user, domain) ==
    LET profile == erp_profile(user) IN
    IF profile.tag = "return" THEN Ret(profile_can_access_domain(profile.val, domain))
    ELSE IF profile.exc = "DoesNotExist" THEN Ret(TRUE)
    ELSE profile

can_access_domain(user, domain) ==
    LET profile == erp_profile(user) IN
    IF profile.tag = "return" THEN Ret(profile_can_access_domain(profile.val, domain))
    ELSE IF profile.exc = "DoesNotExist" THEN Ret(FALSE)
    ELSE profile

\* --------------------------------------------------------------- SessionManager
WeekdayNames == <<"monday", "tuesday", "wednesday", "thursday", "friday",
                  "saturday", "sunday">>

MinutesPerHour == 60

HoursPerDay == 24

DaysPerWeek == 7

\* datetime.now().strftime('%A').lower()
weekday_name(t) ==
    WeekdayNames[((t \div (MinutesPerHour * HoursPerDay)) % DaysPerWeek) + 1]

\* datetime.now().hour
hour_of(t) == (t \div MinutesPerHour) % HoursPerDay

\* Session.objects.all(), expired rows included
active_sessions_unfiltered == sessions

\* Session.objects.filter(expire_date__gte=timezone.now())
active_sessions == {s \in sessions : s.expire_date >= clock}

\* the loop counting every active session, whoever logged in on it
user_sessions_of_anyone(user) == Cardinality(active_sessions)

\* the loop over active_sessions that counts the user's own
user_sessions(user) ==
    Cardinality({s \in active_sessions :
                    /\ "_auth_user_id" \in DOMAIN s.session_data
                    /\ s.session_data["_auth_user_id"] = str_id(user.id)})

\* check_concurrent_sessions comparing with <= instead of <
check_concurrent_sessions_le(user) ==
    LET profile == erp_profile(user) IN
    IF profile.tag = "return"
    THEN Ret(user_sessions(user) <= profile.val.max_concurrent_sessions)
    ELSE IF profile.exc = "DoesNotExist" THEN Ret(TRUE)
    ELSE profile

\* check_concurrent_sessions failing closed on a missing profile
check_concurrent_sessions_fail_closed(user) ==
    LET profile == erp_profile(user) IN
    IF profile.tag = "return"
    THEN Ret(user_sessions(user) < profile.val.max_concurrent_sessions)
    ELSE IF profile.exc = "DoesNotExist" THEN Ret(FALSE)
    ELSE profile

\* check_concurrent_sessions with `except Exception: return True`
check_concurrent_sessions_except_all(user) ==
    LET profile == erp_profile(user) IN
    IF profile.tag = "return"
    THEN Ret(user_sessions(user) < profile.val.max_concurrent_sessions)
    ELSE Ret(TRUE)

check_concurrent_sessions(user) ==
    LET profile == erp_profile(user) IN
    IF profile.tag = "return"
    THEN Ret(user_sessions(user) < profile.val.max_concurrent_sessions)
    ELSE IF profile.exc = "DoesNotExist" THEN Ret(TRUE)
    ELSE profile

\* is_ip_allowed without the empty-whitelist case of line 210
is_ip_allowed_no_empty_case(user, ip_address) ==
    LET profile == erp_profile(user) IN
    IF profile.tag = "return"
    THEN Ret(in_list(ip_address, profile.val.ip_whitelist))
    ELSE IF profile.exc = "DoesNotExist" THEN Ret(TRUE)
    ELSE profile

is_ip_allowed(user, ip_address) ==
    LET profile == erp_profile(user) IN
    IF profile.tag = "return"
    THEN IF profile.val.ip_whitelist = <<>> THEN Ret(TRUE)
         ELSE Ret(in_list(ip_address, profile.val.ip_whitelist))
    ELSE IF profile.exc = "DoesNotExist" THEN Ret(TRUE)
    ELSE profile

DefaultStartHour == 0

DefaultEndHour == 23

\* is_access_time_allowed letting a weekday without an entry through
is_access_time_allowed_absent_day_open(user) ==
    LET profile == erp_profile(user) IN
    IF profile.tag = "return"
    THEN IF DOMAIN profile.val.access_hours = {} THEN Ret(TRUE)
         ELSE LET weekday == weekday_name(clock)
                  current_hour == hour_of(clock)
              IN  IF weekday \in DOMAIN profile.val.access_hours
                  THEN LET allowed_hours == profile.val.access_hours[weekday]
                           start_hour == dict_get(allowed_hours, "start", DefaultStartHour)
                           end_hour == dict_get(allowed_hours, "end", DefaultEndHour)
                       IN  Ret(start_hour <= current_hour /\ current_hour <= end_hour)
                  ELSE Ret(TRUE)
    ELSE IF profile.exc = "DoesNotExist" THEN Ret(TRUE)
    ELSE profile

\* is_access_time_allowed with an exclusive upper bound
is_access_time_allowed_end_exclusive(user) ==
    LET profile == erp_profile(user) IN
    IF profile.tag = "return"
    THEN IF DOMAIN profile.val.access_hours = {} THEN Ret(TRUE)
         ELSE LET weekday == weekday_name(clock)
                  current_hour == hour_of(clock)
              IN  IF weekday \in DOMAIN profile.val.access_hours
                  THEN LET allowed_hours == profile.val.access_hours[weekday]
                           start_hour == dict_get(allowed_hours, "start", DefaultStartHour)
                           end_hour == dict_get(allowed_hours, "end", DefaultEndHour)
                       IN  Ret(start_hour <= current_hour /\ current_hour < end_hour)
                  ELSE Ret(FALSE)
    ELSE IF profile.exc = "DoesNotExist" THEN Ret(TRUE)
    ELSE profile

\* is_access_time_allowed reading start > end as a window over midnight
is_access_time_allowed_overnight(user) ==
    LET profile == erp_profile(user) IN
    IF profile.tag = "return"
    THEN IF DOMAIN profile.val.access_hours = {} THEN Ret(TRUE)
         ELSE LET weekday == weekday_name(clock)
                  current_hour == hour_of(clock)
              IN  IF weekday \in DOMAIN profile.val.access_hours
                  THEN LET allowed_hours == profile.val.access_hours[weekday]
                           start_hour == dict_get(allowed_hours, "start", DefaultStartHour)
                           end_hour == dict_get(allowed_hours, "end", DefaultEndHour)
                       IN  IF start_hour <= end_hour
                           THEN Ret(start_hour <= current_hour /\ current_hour <= end_hour)
                           ELSE Ret(start_hour <= current_hour \/ current_hour <= end_hour)
                  ELSE Ret(FALSE)
    ELSE IF profile.exc = "DoesNotExist" THEN Ret(TRUE)
    ELSE profile

is_access_time_allowed(user) ==
    LET profile == erp_profile(user) IN
    IF profile.tag = "return"
    THEN IF DOMAIN profile.val.access_hours = {} THEN Ret(TRUE)
         ELSE LET weekday == weekday_name(clock)
                  current_hour == hour_of(clock)
              IN  IF weekday \in DOMAIN profile.val.access_hours
                  THEN LET allowed_hours == profile.val.access_hours[weekday]
                           start_hour == dict_get(allowed_hours, "start", DefaultStartHour)
                           end_hour == dict_get(allowed_hours, "end", DefaultEndHour)
                       IN  Ret(start_hour <= current_hour /\ current_hour <= end_hour)
                  ELSE Ret(FALSE)
    ELSE IF profile.exc = "DoesNotExist" THEN Ret(TRUE)
    ELSE profile

\* get_client_ip: the first comma-separated part of X-Forwarded-For when the
\* header is present and non-empty, else REMOTE_ADDR.  The header value is
\* kept as the list of its comma-separated parts.
get_client_ip(META) ==
    LET x_forwarded_for == dict_get(META, "HTTP_X_FORWARDED_FOR", <<>>) IN
    IF x_forwarded_for /= <<>> THEN x_forwarded_for[1]
    ELSE META["REMOTE_ADDR"]

\* ------------------------------------------------------------ rows and inputs
DefaultMaxConcurrentSessions == 3

\* a UserERPProfile row with the model's field defaults
NewProfile(role, primary_domain) ==
    [role |-> role,
     primary_domain |-> primary_domain,
     secondary_domains |-> <<>>,
     ip_whitelist |-> <<>>,
     access_hours |-> <<>>,
     max_concurrent_sessions |-> DefaultMaxConcurrentSessions]

\* an ERPRole row
RoleRow(permissions) == [permissions |-> permissions]

\* an ERPRole row with every field create_default_roles and register set
ERPRoleRow(name, description, permissions, redirect_url) ==
    [name |-> name, description |-> description, permissions |-> permissions,
     redirect_url |-> redirect_url]

\* roles_config with 'drawing.upload' added to the Viewer role
roles_config_viewer_uploads ==
    <<[name |-> "Super Administrator",
       code |-> "SUPER_ADMIN",
       description |-> "Full system access and control",
       permissions |-> <<star>>,
       redirect_url |-> "/ai-erp/admin-dashboard/"],
      [name |-> "Project Manager",
       code |-> "PROJECT_MANAGER",
       description |-> "Project management and oversight",
       permissions |-> <<project_star, drawing_read, drawing_comment,
                        drawing_approve, simulation_read, team_read,
                        reports_generate, ai_query>>,
       redirect_url |-> "/pm/dashboard/"],
      [name |-> "Senior Engineer",
       code |-> "SENIOR_ENGINEER",
       description |-> "Full engineering capabilities",
       permissions |-> <<drawing_star, simulation_star, ai_query, ai_advanced,
                        project_read, project_modify, safety_analyze,
                        compliance_check, reports_generate>>,
       redirect_url |-> "/engineer/dashboard/"],
      [name |-> "Engineer",
       code |-> "ENGINEER",
       description |-> "Standard engineering access",
       permissions |-> <<drawing_read, drawing_upload, drawing_analyze,
                        drawing_comment, simulation_create, simulation_read,
                        simulation_run, ai_query, project_read,
                        reports_generate>>,
       redirect_url |-> "/engineer/workspace/"],
      [name |-> "Analyst",
       code |-> "ANALYST",
       description |-> "Analysis and reporting access",
       permissions |-> <<drawing_read, simulation_read, ai_query,
                        reports_generate, data_export, project_read>>,
       redirect_url |-> "/analyst/dashboard/"],
      [name |-> "Viewer",
       code |-> "VIEWER",
       description |-> "Read-only access to approved content",
       permissions |-> <<drawing_read, drawing_upload, simulation_read,
                        project_read, reports_generate>>,
       redirect_url |-> "/viewer/dashboard/"]>>

\* roles_config of create_default_roles
roles_config ==
    <<[name |-> "Super Administrator",
       code |-> "SUPER_ADMIN",
       description |-> "Full system access and control",
       permissions |-> <<star>>,
       redirect_url |-> "/ai-erp/admin-dashboard/"],
      [name |-> "Project Manager",
       code |-> "PROJECT_MANAGER",
       description |-> "Project management and oversight",
       permissions |-> <<project_star, drawing_read, drawing_comment,
                        drawing_approve, simulation_read, team_read,
                        reports_generate, ai_query>>,
       redirect_url |-> "/pm/dashboard/"],
      [name |-> "Senior Engineer",
       code |-> "SENIOR_ENGINEER",
       description |-> "Full engineering capabilities",
       permissions |-> <<drawing_star, simulation_star, ai_query, ai_advanced,
                        project_read, project_modify, safety_analyze,
                        compliance_check, reports_generate>>,
       redirect_url |-> "/engineer/dashboard/"],
      [name |-> "Engineer",
       code |-> "ENGINEER",
       description |-> "Standard engineering access",
       permissions |-> <<drawing_read, drawing_upload, drawing_analyze,
                        drawing_comment, simulation_create, simulation_read,
                        simulation_run, ai_query, project_read,
                        reports_generate>>,
       redirect_url |-> "/engineer/workspace/"],
      [name |-> "Analyst",
       code |-> "ANALYST",
       description |-> "Analysis and reporting access",
       permissions |-> <<drawing_read, simulation_read, ai_query,
                        reports_generate, data_export, project_read>>,
       redirect_url |-> "/analyst/dashboard/"],
      [name |-> "Viewer",
       code |-> "VIEWER",
       description |-> "Read-only access to approved content",
       permissions |-> <<drawing_read, simulation_read, project_read,
                        reports_generate>>,
       redirect_url |-> "/viewer/dashboard/"]>>

\* the row create() inserts for one entry of roles_config
seed_row(role_config) ==
    ERPRoleRow(role_config.name, role_config.description, role_config.permissions,
               role_config.redirect_url)

\* the table with one more row
with_row(store, code, row) ==
    [c \in DOMAIN store \cup {code} |-> IF c = code THEN row ELSE store[c]]

\* name is unique: some row under another code already holds it
name_taken(store, name, code) ==
    \E c \in DOMAIN store : c /= code /\ store[c].name = name

\* the loop of create_default_roles from entry i on: get_or_create by code,
\* appending the codes of the rows it created
RECURSIVE seed_loop(_, _, _)
seed_loop(store, i, created_roles) ==
    IF i > Len(roles_config) THEN [roles |-> store, result |-> Ret(created_roles)]
    ELSE LET role_config == roles_config[i] IN
         IF role_config.code \in DOMAIN store
         THEN seed_loop(store, i + 1, created_roles)
         ELSE IF name_taken(store, role_config.name, role_config.code)
         THEN [roles |-> store, result |-> Raise("IntegrityError")]
         ELSE seed_loop(with_row(store, role_config.code, seed_row(role_config)),
                        i + 1, Append(created_roles, role_config.code))

\* the loop written with update_or_create: rows found are overwritten
RECURSIVE seed_loop_overwriting(_, _, _)
seed_loop_overwriting(store, i, created_roles) ==
    IF i > Len(roles_config) THEN [roles |-> store, result |-> Ret(created_roles)]
    ELSE LET role_config == roles_config[i] IN
         IF name_taken(store, role_config.name, role_config.code)
         THEN [roles |-> store, result |-> Raise("IntegrityError")]
         ELSE seed_loop_overwriting(
                 with_row(store, role_config.code, seed_row(role_config)), i + 1,
                 IF role_config.code \in DOMAIN store THEN created_roles
                 ELSE Append(created_roles, role_config.code))

\* create_default_roles with update_or_create in place of get_or_create
create_default_roles_overwriting(store) == seed_loop_overwriting(store, 1, <<>>)

\* create_default_roles() on the ERPRole table `store`: the table it leaves and
\* what it returns (the created roles, by code) or raises
create_default_roles(store) == seed_loop(store, 1, <<>>)

\* the ERPRole table after create_default_roles ran on an empty table
SeededRoles == create_default_roles(<<>>).roles

\* a django Session row
SessionRow(key, data, expire) ==
    [session_key |-> key, session_data |-> data, expire_date |-> expire]

\* session_data of a logged-in user, and of a session nobody logged in on
AuthData(id) == [k \in {"_auth_user_id"} |-> str_id(id)]
NoAuthData == <<>>

Domains == {"upstream", "process", "safety"}

IPStrings == {"10.0.0.1", "10.0.0.5", " 10.0.0.1", "not-an-ip"}

\* request.META as a dict
Metas ==
    {[k \in {"REMOTE_ADDR"} |-> ip] : ip \in IPStrings}
    \cup {[HTTP_X_FORWARDED_FOR |-> <<"10.0.0.1", " 10.0.0.5">>, REMOTE_ADDR |-> "10.0.0.5"],
          [HTTP_X_FORWARDED_FOR |-> <<>>, REMOTE_ADDR |-> "10.0.0.5"]}

NamedPermissions == {drawing_read, drawing_upload, drawingx_read, not_in_catalog, star}

PermissionStrings == GenStrings \cup NamedPermissions

PatternStrings == GenStrings \cup {drawing_star, drawing_read}

\* the values a window dict may hold under 'start' and under 'end'
StartHours == {9, 22}
EndHours == {6, 17}

WindowDicts ==
    {<<>>}
    \cup {[k \in {"start"} |-> h] : h \in StartHours}
    \cup {[k \in {"end"} |-> h] : h \in EndHours}
    \cup {[start |-> a, end |-> b] : a \in StartHours, b \in EndHours}

KeyDays == {"monday", "tuesday"}

AccessHoursMaps == UNION {[D -> WindowDicts] : D \in SUBSET KeyDays}

\* every hour of the week, at its first and at its last minute
ClockValues ==
    {(d * HoursPerDay + h) * MinutesPerHour + m :
        d \in 0..(DaysPerWeek - 1), h \in 0..(HoursPerDay - 1),
        m \in {0, MinutesPerHour - 1}}

\* a session table holding `own` live sessions of user 1 (the first one expiring
\* exactly now), `old` expired ones of user 1, `other` live ones of user 2 and
\* `anon` live sessions without a logged-in user
SessionTable(now, own, old, other, anon) ==
    {SessionRow(k, AuthData(1), IF k = 1 THEN now ELSE now + 1) : k \in 1..own}
    \cup {SessionRow(own + k, AuthData(1), now - 1) : k \in 1..old}
    \cup {SessionRow(own + old + k, AuthData(2), now + 1) : k \in 1..other}
    \cup {SessionRow(own + old + other + k, NoAuthData, now + 1) : k \in 1..anon}

SessionTables(now) ==
    {SessionTable(now, own, old, other, anon) :
        own \in 0..MaxSessions, old \in 0..1, other \in 0..1, anon \in 0..1}

\* the principals a request can carry: AnonymousUser, or a RejlersUser row
Principals == {AnonymousUser} \cup {RealUser(1, su) : su \in BOOLEAN}

NoRequest ==
    [fn |-> "none", user |-> AnonymousUser, permission |-> <<>>,
     domain |-> "", ip_address |-> "",
     decorators |-> <<>>, permissions |-> <<>>, role_codes |-> <<>>,
     META |-> [k \in {"REMOTE_ADDR"} |-> ""],
     data |-> <<>>]

\* a position: the step, the decorator layer (1 is the outermost wrapper) and
\* the index of the loop of require_permissions
Pc(step, layer, i) == [step |-> step, layer |-> layer, i |-> i]

\* profiles of user 1: none, or one profile out of P; user 2 keeps a default
\* profile with the role `other`
ProfilesOfUser1(P, other) ==
    {[id \in UserIds |-> IF id = 1 THEN p ELSE NewProfile(other, "process")] :
        p \in P \cup {NoProfile}}

\* a Tuesday, 10:00
Midweek == (HoursPerDay + 10) * MinutesPerHour

\* ------------------------------------------------- direct calls of the checks
\* One call of one check on stores and arguments drawn from the sets above.

Idle == /\ pc = Pc("call", 0, 0)
        /\ response = None
        /\ invoked = 0
        /\ db = "up"
        /\ history = <<>>

InitHasPermission ==
    /\ sessions = {}
    /\ clock = Midweek
    /\ \/ /\ roles \in {[c \in {"R"} |-> RoleRow(l)] : l \in SeqUpTo(PatternStrings, MaxPatterns)}
          /\ profiles = [id \in UserIds |-> NewProfile("R", "process")]
          /\ request \in {[NoRequest EXCEPT !.fn = "has_permission",
                                            !.user = RealUser(1, FALSE),
                                            !.permission = p] : p \in PermissionStrings}
       \/ /\ roles \in {[c \in {"R"} |-> RoleRow(l)] :
                           l \in {<<>>, <<star>>, <<drawing_read>>, <<drawing_star>>}}
          /\ profiles \in ProfilesOfUser1({NewProfile("R", "process")}, "R")
          /\ request \in {[NoRequest EXCEPT !.fn = "has_permission",
                                            !.user = u,
                                            !.permission = p] :
                             u \in Principals, p \in NamedPermissions}

InitCanAccessDomain ==
    /\ sessions = {}
    /\ clock = Midweek
    /\ roles \in {[c \in {"R"} |-> RoleRow(l)] :
                     l \in {<<p>> : p \in PatternStrings}
                           \cup {<<>>, <<drawing_read, star>>,
                                 <<drawing_star, simulation_star>>}}
    /\ profiles \in ProfilesOfUser1(
          {[NewProfile("R", pd) EXCEPT !.secondary_domains = sd] :
              pd \in Domains, sd \in {<<>>, <<"safety">>, <<"safety", "upstream">>}}, "R")
    /\ request \in {[NoRequest EXCEPT !.fn = "can_access_domain",
                                      !.user = u,
                                      !.domain = d] : u \in Principals, d \in Domains}

InitCheckConcurrentSessions ==
    /\ clock = Midweek
    /\ sessions \in SessionTables(Midweek)
    /\ roles = [c \in {"R"} |-> RoleRow(<<drawing_read>>)]
    /\ profiles \in ProfilesOfUser1(
          {[NewProfile("R", "process") EXCEPT !.max_concurrent_sessions = m] :
              m \in 0..MaxSessions}, "R")
    /\ request \in {[NoRequest EXCEPT !.fn = "check_concurrent_sessions",
                                      !.user = u] : u \in Principals}

InitIsIpAllowed ==
    /\ clock = Midweek
    /\ sessions = {}
    /\ roles = [c \in {"R"} |-> RoleRow(<<drawing_read>>)]
    /\ profiles \in ProfilesOfUser1(
          {[NewProfile("R", "process") EXCEPT !.ip_whitelist = w] :
              w \in SeqUpTo(IPStrings, MaxWhitelist)}, "R")
    /\ request \in {[NoRequest EXCEPT !.fn = "is_ip_allowed",
                                      !.user = u,
                                      !.ip_address = ip] :
                       u \in Principals, ip \in IPStrings \cup {""}}

InitIsAccessTimeAllowed ==
    /\ clock \in ClockValues
    /\ sessions = {}
    /\ roles = [c \in {"R"} |-> RoleRow(<<drawing_read>>)]
    /\ profiles \in ProfilesOfUser1(
          {[NewProfile("R", "process") EXCEPT !.access_hours = m] :
              m \in AccessHoursMaps}, "R")
    /\ request \in {[NoRequest EXCEPT !.fn = "is_access_time_allowed",
                                      !.user = u] : u \in Principals}

InitFn ==
    /\ Idle
    /\ \/ InitHasPermission
       \/ InitCanAccessDomain
       \/ InitCheckConcurrentSessions
       \/ InitIsIpAllowed
       \/ InitIsAccessTimeAllowed

Return(fn, result) ==
    /\ pc.step = "call"
    /\ request.fn = fn
    /\ response' = result
    /\ pc' = Pc("returned", 0, 0)
    /\ UNCHANGED <<roles, profiles, sessions, clock, request, invoked, db, history>>

CallHasPermission ==
    Return("has_permission", has_permission(request.user, request.permission))

CallCanAccessDomain ==
    Return("can_access_domain", can_access_domain(request.user, request.domain))

CallCheckConcurrentSessions ==
    Return("check_concurrent_sessions", check_concurrent_sessions(request.user))

CallIsIpAllowed ==
    Return("is_ip_allowed", is_ip_allowed(request.user, request.ip_address))

CallIsAccessTimeAllowed ==
    Return("is_access_time_allowed", is_access_time_allowed(request.user))

NextFn ==
    \/ CallHasPermission
    \/ CallCanAccessDomain
    \/ CallCheckConcurrentSessions
    \/ CallIsIpAllowed
    \/ CallIsAccessTimeAllowed

SpecFn == InitFn /\ [][NextFn]_vars

\* the call of fn has returned
Returned(fn) == pc.step = "returned" /\ request.fn = fn

\* ------------------------------------------------------------ the decorators
\* A request to a view wrapped in request.decorators (outermost first).  Each
\* wrapper runs its checks in order, one step per check, and either answers
\* or calls view_func, which is the next wrapper or, after the last one, the
\* view body.

LoginRedirect == [status |-> 302, location |-> "/login/"]

AuthenticationRequired ==
    [status |-> 401, error |-> "Authentication required", redirect |-> "/login/"]

InsufficientPermissions(permission) ==
    [status |-> 403, error |-> "Insufficient permissions",
     required_permission |-> permission]

InsufficientRole(role_codes, user_role) ==
    [status |-> 403, error |-> "Insufficient role privileges",
     required_roles |-> role_codes, user_role |-> user_role]

MissingPermission(permission, permissions, user_permissions) ==
    [status |-> 403, error |-> "Missing required permission",
     missing |-> permission,
     required_permissions |-> permissions, user_permissions |-> user_permissions]

DomainDenied(domain) ==
    [status |-> 403, error |-> "Access denied to domain", required_domain |-> domain]

SessionsExceeded ==
    [status |-> 429, error |-> "Maximum concurrent sessions exceeded",
     action |-> "logout_other_sessions"]

IpDenied(client_ip) ==
    [status |-> 403, error |-> "Access denied from this IP address", ip |-> client_ip]

HoursDenied == [status |-> 403, error |-> "Access denied outside allowed hours"]

\* what the view body answers
ViewResponse == [status |-> 200]

\* an exception no wrapper catches
Unhandled(exc) == [status |-> 500, exc |-> exc]

At(decorator, step) ==
    /\ pc.layer \in 1..Len(request.decorators)
    /\ request.decorators[pc.layer] = decorator
    /\ pc.step = step

\* return a response from the wrapper; the outer wrappers pass it on
Respond(r) ==
    /\ response' = r
    /\ pc' = Pc("done", pc.layer, 0)
    /\ UNCHANGED <<roles, profiles, sessions, clock, request, invoked, db, history>>

Goto(step, i) ==
    /\ pc' = Pc(step, pc.layer, i)
    /\ UNCHANGED <<roles, profiles, sessions, clock, request, response, invoked, db, history>>

\* return view_func(request, *args, **kwargs)
CallViewFunc ==
    /\ pc' = IF pc.layer + 1 > Len(request.decorators)
             THEN Pc("view", pc.layer + 1, 0)
             ELSE Pc("auth", pc.layer + 1, 0)
    /\ UNCHANGED <<roles, profiles, sessions, clock, request, response, invoked, db, history>>

\* a failing check that builds its denial but goes on to the next step
Check_no_return(result, denial, step, i) ==
    IF result.tag = "raise" THEN Respond(Unhandled(result.exc))
    ELSE IF ~result.val
    THEN /\ response' = denial
         /\ pc' = IF step /= "view_func" THEN Pc(step, pc.layer, i)
                  ELSE IF pc.layer + 1 > Len(request.decorators)
                  THEN Pc("view", pc.layer + 1, 0)
                  ELSE Pc("auth", pc.layer + 1, 0)
         /\ UNCHANGED <<roles, profiles, sessions, clock, request, invoked, db, history>>
    ELSE IF step = "view_func" THEN CallViewFunc
    ELSE Goto(step, i)

\* a check that returned false answers `denial`, one that raised is not caught
Check(result, denial, step, i) ==
    IF result.tag = "raise" THEN Respond(Unhandled(result.exc))
    ELSE IF ~result.val THEN Respond(denial)
    ELSE IF step = "view_func" THEN CallViewFunc
    ELSE Goto(step, i)

\* --- enhanced_login_required
\* the authentication step answering 401 JSON as the other decorators do
ElrAuth_json ==
    /\ At("enhanced_login_required", "auth")
    /\ IF ~is_authenticated(request.user) THEN Respond(AuthenticationRequired)
       ELSE Goto("concurrency", 0)

ElrAuth ==
    /\ At("enhanced_login_required", "auth")
    /\ IF ~is_authenticated(request.user) THEN Respond(LoginRedirect)
       ELSE Goto("concurrency", 0)

\* the concurrency step logging the other sessions out when the limit is hit
ElrConcurrency_evicting ==
    /\ At("enhanced_login_required", "concurrency")
    /\ IF check_concurrent_sessions(request.user) = Ret(FALSE)
       THEN /\ sessions' = {s \in sessions :
                               s.session_data /= AuthData(request.user.id)}
            /\ response' = SessionsExceeded
            /\ pc' = Pc("done", pc.layer, 0)
            /\ UNCHANGED <<roles, profiles, clock, request, invoked, db, history>>
       ELSE Check(check_concurrent_sessions(request.user), SessionsExceeded, "ip", 0)

\* the concurrency step opening a session for the request once it passes
ElrConcurrency_opening ==
    /\ At("enhanced_login_required", "concurrency")
    /\ IF check_concurrent_sessions(request.user) = Ret(TRUE)
       THEN /\ sessions' = sessions \cup
                   {SessionRow(Cardinality(sessions) + 1,
                               AuthData(request.user.id), clock + 1)}
            /\ pc' = Pc("ip", pc.layer, 0)
            /\ UNCHANGED <<roles, profiles, clock, request, response, invoked,
                           db, history>>
       ELSE Check(check_concurrent_sessions(request.user), SessionsExceeded, "ip", 0)

\* the concurrency step leaving the session that carries the request out of
\* the count
ElrConcurrency_but_this_session ==
    /\ At("enhanced_login_required", "concurrency")
    /\ LET profile == erp_profile(request.user) IN
       Check(IF profile.tag = "return"
             THEN Ret(user_sessions(request.user) - 1 < profile.val.max_concurrent_sessions)
             ELSE check_concurrent_sessions(request.user),
             SessionsExceeded, "ip", 0)

ElrConcurrency ==
    /\ At("enhanced_login_required", "concurrency")
    /\ Check(check_concurrent_sessions(request.user), SessionsExceeded, "ip", 0)

\* the IP step letting every address through
ElrIp_unchecked ==
    /\ At("enhanced_login_required", "ip")
    /\ Goto("time", 0)

ElrIp ==
    /\ At("enhanced_login_required", "ip")
    /\ LET client_ip == get_client_ip(request.META) IN
       Check(is_ip_allowed(request.user, client_ip), IpDenied(client_ip), "time", 0)

ElrTime ==
    /\ At("enhanced_login_required", "time")
    /\ Check(is_access_time_allowed(request.user), HoursDenied, "view_func", 0)

\* --- require_permission(permission)
RpAuth ==
    /\ At("require_permission", "auth")
    /\ IF ~is_authenticated(request.user) THEN Respond(AuthenticationRequired)
       ELSE Goto("permission", 0)

\* the permission step calling the view whatever has_permission says
RpPermission_unchecked ==
    /\ At("require_permission", "permission")
    /\ CallViewFunc

RpPermission ==
    /\ At("require_permission", "permission")
    /\ Check(has_permission(request.user, request.permission),
             InsufficientPermissions(request.permission), "view_func", 0)

\* --- require_role(role_codes)
RrAuth ==
    /\ At("require_role", "auth")
    /\ IF ~is_authenticated(request.user) THEN Respond(AuthenticationRequired)
       ELSE Goto("role", 0)

\* the role step letting is_superuser through as has_permission does
RrRole_superuser_passes ==
    /\ At("require_role", "role")
    /\ LET user_role == get_user_role(request.user) IN
       IF request.user.is_superuser THEN CallViewFunc
       ELSE IF user_role.tag = "raise" THEN Respond(Unhandled(user_role.exc))
       ELSE IF user_role.val = None
            THEN Respond(InsufficientRole(request.role_codes, None))
       ELSE IF ~in_list(user_role.val.code, request.role_codes)
            THEN Respond(InsufficientRole(request.role_codes, user_role.val.code))
       ELSE CallViewFunc

RrRole ==
    /\ At("require_role", "role")
    /\ LET user_role == get_user_role(request.user) IN
       IF user_role.tag = "raise" THEN Respond(Unhandled(user_role.exc))
       ELSE IF user_role.val = None
            THEN Respond(InsufficientRole(request.role_codes, None))
       ELSE IF ~in_list(user_role.val.code, request.role_codes)
            THEN Respond(InsufficientRole(request.role_codes, user_role.val.code))
       ELSE CallViewFunc

\* --- require_permissions(permissions)
RpsAuth ==
    /\ At("require_permissions", "auth")
    /\ IF ~is_authenticated(request.user) THEN Respond(AuthenticationRequired)
       ELSE Goto("loop", 1)

\* the loop calling the view as soon as one permission is held
RpsLoop_any ==
    /\ At("require_permissions", "loop")
    /\ IF pc.i > Len(request.permissions) THEN CallViewFunc
       ELSE LET permission == request.permissions[pc.i]
                user_permissions == get_user_permissions(request.user)
            IN  IF has_permission(request.user, permission) = Ret(TRUE)
                THEN CallViewFunc
                ELSE Respond(MissingPermission(permission, request.permissions,
                                               user_permissions.val))

\* one iteration of the loop, or its exit
RpsLoop ==
    /\ At("require_permissions", "loop")
    /\ IF pc.i > Len(request.permissions) THEN CallViewFunc
       ELSE LET permission == request.permissions[pc.i]
                user_permissions == get_user_permissions(request.user)
            IN  Check(has_permission(request.user, permission),
                      IF user_permissions.tag = "raise"
                      THEN Unhandled(user_permissions.exc)
                      ELSE MissingPermission(permission, request.permissions,
                                             user_permissions.val),
                      "loop", pc.i + 1)

\* --- require_domain_access(domain)
RdaAuth ==
    /\ At("require_domain_access", "auth")
    /\ IF ~is_authenticated(request.user) THEN Respond(AuthenticationRequired)
       ELSE Goto("domain", 0)

RdaDomain ==
    /\ At("require_domain_access", "domain")
    /\ Check(can_access_domain(request.user, request.domain),
             DomainDenied(request.domain), "view_func", 0)

\* --- the decorated view body
View ==
    /\ pc.step = "view"
    /\ invoked' = invoked + 1
    /\ response' = ViewResponse
    /\ pc' = Pc("done", pc.layer, 0)
    /\ UNCHANGED <<roles, profiles, sessions, clock, request, db, history>>

\* ------------------------------------------------- requests to decorated views
TimeAt(day, hour, minute) == ((day * HoursPerDay) + hour) * MinutesPerHour + minute

\* Monday 08:00, Monday 09:59, Monday 17:59 and Sunday 12:00
GateClockValues == {TimeAt(0, 8, 0), TimeAt(0, 9, 59), TimeAt(0, 17, 59), TimeAt(6, 12, 0)}

GateProfiles ==
    {[NewProfile(r, "process") EXCEPT !.ip_whitelist = w,
                                      !.access_hours = a,
                                      !.max_concurrent_sessions = m] :
        r \in {"SUPER_ADMIN", "VIEWER", "SENIOR_ENGINEER"},
        w \in {<<>>, <<"10.0.0.1">>},
        a \in {<<>>, [k \in {"monday"} |-> [start |-> 9, end |-> 17]]},
        m \in 1..MaxSessions}

GateMetas ==
    {[k \in {"REMOTE_ADDR"} |-> "10.0.0.1"],
     [k \in {"REMOTE_ADDR"} |-> "10.0.0.5"],
     [HTTP_X_FORWARDED_FOR |-> <<"10.0.0.1", " 10.0.0.5">>, REMOTE_ADDR |-> "10.0.0.5"]}

ViewRequest(user, decorators) ==
    [NoRequest EXCEPT !.fn = "view", !.user = user, !.decorators = decorators]

\* views behind enhanced_login_required, alone or stacked on require_permission
InitSessionGated ==
    /\ clock \in GateClockValues
    /\ sessions \in {SessionTable(clock, own, b, b, b) : own \in 0..MaxSessions, b \in 0..1}
    /\ profiles \in ProfilesOfUser1(GateProfiles, "ENGINEER")
    /\ request \in
          {[ViewRequest(u, <<"enhanced_login_required">>) EXCEPT !.META = m] :
              u \in Principals, m \in GateMetas}
          \cup
          {[ViewRequest(u, <<"enhanced_login_required", "require_permission">>)
               EXCEPT !.META = m, !.permission = p] :
              u \in Principals, m \in GateMetas, p \in {drawing_read, drawing_upload}}

\* views behind one of the permission, role and domain decorators
InitPermissionGated ==
    /\ clock = Midweek
    /\ sessions = {}
    /\ profiles \in ProfilesOfUser1(
          {[NewProfile(r, "process") EXCEPT !.secondary_domains = <<"safety">>] :
              r \in {"SUPER_ADMIN", "VIEWER", "SENIOR_ENGINEER"}}, "ENGINEER")
    /\ request \in
          {[ViewRequest(u, <<"require_permission">>) EXCEPT !.permission = p] :
              u \in Principals, p \in {drawing_read, drawing_upload}}
          \cup
          {[ViewRequest(u, <<"require_permissions">>) EXCEPT !.permissions = l] :
              u \in Principals,
              l \in SeqUpTo({drawing_read, drawing_upload, simulation_read}, MaxPerms)}
          \cup
          {[ViewRequest(u, <<"require_role">>) EXCEPT !.role_codes = l] :
              u \in Principals, l \in {<<"SUPER_ADMIN">>, <<"VIEWER", "SENIOR_ENGINEER">>}}
          \cup
          {[ViewRequest(u, <<"require_domain_access">>) EXCEPT !.domain = d] :
              u \in Principals, d \in {"process", "safety", "upstream"}}

\* a request arriving at its outermost wrapper
Arrived ==
    /\ pc = Pc("auth", 1, 0)
    /\ response = None
    /\ invoked = 0
    /\ history = <<>>

Init ==
    /\ Arrived
    /\ db = "up"
    /\ roles = SeededRoles
    /\ \/ InitSessionGated
       \/ InitPermissionGated

Next ==
    \/ ElrAuth
    \/ ElrConcurrency
    \/ ElrIp
    \/ ElrTime
    \/ RpAuth
    \/ RpPermission
    \/ RrAuth
    \/ RrRole
    \/ RpsAuth
    \/ RpsLoop
    \/ RdaAuth
    \/ RdaDomain
    \/ View

Spec == Init /\ [][Next]_vars

\* the request has been answered
Done == pc.step = "done"

\* ------------------------------------------------ properties of the checks
\* the request's principal is a RejlersUser with / without a UserERPProfile row
HasProfile == request.user.kind = "user" /\ profiles[request.user.id] /= NoProfile
LacksProfile == request.user.kind = "user" /\ profiles[request.user.id] = NoProfile

TheProfile == profiles[request.user.id]

\* sessions of the request's principal whose expiry has not passed
OwnLiveSessions ==
    {s \in sessions : /\ s.session_data = AuthData(request.user.id)
                      /\ ~(s.expire_date < clock)}

\* C2: for a principal with a profile, check_concurrent_sessions returns true
\* exactly when the principal's live sessions number strictly fewer than the
\* profile's max_concurrent_sessions (max 3: allowed at 2, denied at 3; max 1
\* with 1 live session: denied).
C2_ConcurrencyStrictlyBelowMax ==
    (Returned("check_concurrent_sessions") /\ HasProfile) =>
        LET n == Cardinality(OwnLiveSessions)
            max == TheProfile.max_concurrent_sessions
        IN  /\ response = Ret(n < max)
            /\ (max = 3 /\ n = 2) => response = Ret(TRUE)
            /\ (max = 3 /\ n = 3) => response = Ret(FALSE)
            /\ (max = 1 /\ n = 1) => response = Ret(FALSE)

C2_Witness ==
    /\ Returned("check_concurrent_sessions") /\ HasProfile
    /\ TheProfile.max_concurrent_sessions = 3
    /\ Cardinality(OwnLiveSessions) = 3
    /\ Cardinality(sessions) > 3
    /\ response = Ret(FALSE)

\* the weekday and hour the request arrives at
Today == weekday_name(clock)
HourNow == hour_of(clock)

C4_WindowInclusive ==
    (Returned("is_access_time_allowed") /\ HasProfile
        /\ Today \in DOMAIN TheProfile.access_hours
        /\ DOMAIN TheProfile.access_hours[Today] = {"start", "end"})
    => LET w == TheProfile.access_hours[Today] IN
       /\ response = Ret(HourNow \in w.start .. w.end)
       /\ (w.start = 9 /\ w.end = 17) =>
             /\ HourNow \in {9, 17} => response = Ret(TRUE)
             /\ HourNow \in {8, 18} => response = Ret(FALSE)

C4_Witness ==
    /\ Returned("is_access_time_allowed") /\ HasProfile
    /\ Today \in DOMAIN TheProfile.access_hours
    /\ TheProfile.access_hours[Today] = [start |-> 9, end |-> 17]
    /\ HourNow = 17
    /\ clock % MinutesPerHour = MinutesPerHour - 1
    /\ response = Ret(TRUE)

\* C5: for a principal with a profile, is_ip_allowed returns true for every
\* address when the whitelist is empty, and otherwise exactly when the address
\* equals a member of the whitelist.
C5_IpWhitelist ==
    (Returned("is_ip_allowed") /\ HasProfile) =>
        LET w == TheProfile.ip_whitelist IN
        /\ w = <<>> => response = Ret(TRUE)
        /\ w /= <<>> => response = Ret(request.ip_address \in {w[i] : i \in DOMAIN w})

C5_Witness ==
    /\ Returned("is_ip_allowed") /\ HasProfile
    /\ TheProfile.ip_whitelist = <<"10.0.0.1", "10.0.0.5">>
    /\ request.ip_address = " 10.0.0.1"
    /\ response = Ret(FALSE)

\* pattern grants permission: it is the permission itself, or it is some
\* prefix of the permission followed by one '*'
Grants(pattern, permission) ==
    \/ pattern = permission
    \/ \E k \in 0..Len(permission) : pattern = SubSeq(permission, 1, k) \o <<"*">>

\* the principal is an ordinary user whose role is resolved through a profile
OrdinaryWithRole == HasProfile /\ ~request.user.is_superuser

ThePatterns == roles[TheProfile.role].permissions

\* C6: for an ordinary principal with a role, has_permission is true exactly
\* when some pattern of the role equals the permission or ends in '*' and is,
\* without that '*', a prefix of it: 'drawing.*' grants 'drawing.read' and not
\* 'drawingx.read', and ['*'] grants every permission string.
C6_PatternMatching ==
    (Returned("has_permission") /\ OrdinaryWithRole) =>
        /\ response = Ret(\E i \in DOMAIN ThePatterns :
                             Grants(ThePatterns[i], request.permission))
        /\ (ThePatterns = <<drawing_star>> /\ request.permission = drawing_read)
              => response = Ret(TRUE)
        /\ (ThePatterns = <<drawing_star>> /\ request.permission = drawingx_read)
              => response = Ret(FALSE)
        /\ ThePatterns = <<star>> => response = Ret(TRUE)

C6_Witness ==
    /\ Returned("has_permission") /\ OrdinaryWithRole
    /\ ThePatterns = <<drawing_star>>
    /\ request.permission = drawingx_read
    /\ response = Ret(FALSE)

\* C7: has_permission returns true for every permission when the principal
\* is a superuser, with any role and with or without a profile.
C7_SuperuserOverride ==
    (Returned("has_permission") /\ request.user.is_superuser) => response = Ret(TRUE)

C7_Witness ==
    /\ Returned("has_permission") /\ request.user.is_superuser
    /\ LacksProfile
    /\ request.permission = not_in_catalog
    /\ response = Ret(TRUE)

\* C8: for an authenticated principal that is no superuser and has no
\* profile, has_permission and can_access_domain return false for every
\* argument; neither raises.
C8_NoProfileFailsClosed ==
    (LacksProfile /\ ~request.user.is_superuser
        /\ (Returned("has_permission") \/ Returned("can_access_domain")))
    => response = Ret(FALSE)

C8_Witness ==
    /\ Returned("can_access_domain")
    /\ LacksProfile /\ ~request.user.is_superuser
    /\ roles["R"].permissions = <<star>>
    /\ response = Ret(FALSE)

\* C10: without a profile, check_concurrent_sessions, is_ip_allowed and
\* is_access_time_allowed return true for every input, while has_permission
\* returns false for the same principal when it is no superuser.
C10_NoProfileSessionChecksOpen ==
    LacksProfile =>
        /\ (\/ Returned("check_concurrent_sessions")
            \/ Returned("is_ip_allowed")
            \/ Returned("is_access_time_allowed")) => response = Ret(TRUE)
        /\ (Returned("has_permission") /\ ~request.user.is_superuser)
              => response = Ret(FALSE)

C10_Witness ==
    /\ Returned("check_concurrent_sessions") /\ LacksProfile
    /\ Cardinality(OwnLiveSessions) = MaxSessions
    /\ response = Ret(TRUE)

\* ------------------------------------------------ properties of the decorators
\* the outcome a response stands for
Outcome(r) ==
    IF r.status = 200 THEN "Allow"
    ELSE IF r.status \in {302, 401} THEN "AuthenticationRequired"
    ELSE IF r.status = 429 THEN "ConcurrentSessionLimitExceeded"
    ELSE IF r.status = 403 /\ r.error = "Access denied from this IP address"
         THEN "IPNotAllowed"
    ELSE IF r.status = 403 /\ r.error = "Access denied outside allowed hours"
         THEN "AccessHoursViolation"
    ELSE IF r.status = 403 /\ r.error \in {"Insufficient permissions",
                                           "Missing required permission",
                                           "Insufficient role privileges"}
         THEN "PermissionDenied"
    ELSE "Error"

Passes(result) == result = Ret(TRUE)

\* the view is wrapped in enhanced_login_required over require_permission
FullGate == request.decorators = <<"enhanced_login_required", "require_permission">>

\* C1: behind enhanced_login_required stacked on require_permission, the
\* answer is Allow exactly when the principal is authenticated and the
\* concurrency, IP, time and permission checks all pass, and otherwise the
\* denial of the first failing check in the order authentication,
\* concurrency, IP, time, permission; a principal with '*' or the superuser
\* flag whose address is outside a non-empty whitelist gets IPNotAllowed.
C1_FirstFailingCheckDecides ==
    (Done /\ FullGate) =>
        LET u == request.user
            ip == get_client_ip(request.META)
            concurrency == Passes(check_concurrent_sessions(u))
            address == Passes(is_ip_allowed(u, ip))
            hours == Passes(is_access_time_allowed(u))
            permission == Passes(has_permission(u, request.permission))
        IN  /\ Outcome(response) =
                  IF ~is_authenticated(u) THEN "AuthenticationRequired"
                  ELSE IF ~concurrency THEN "ConcurrentSessionLimitExceeded"
                  ELSE IF ~address THEN "IPNotAllowed"
                  ELSE IF ~hours THEN "AccessHoursViolation"
                  ELSE IF ~permission THEN "PermissionDenied"
                  ELSE "Allow"
            /\ Outcome(response) = "Allow" <=>
                  (is_authenticated(u) /\ concurrency /\ address /\ hours /\ permission)
            /\ (/\ HasProfile
                /\ u.is_superuser \/ in_list(star, ThePatterns)
                /\ TheProfile.ip_whitelist /= <<>>
                /\ ~in_list(ip, TheProfile.ip_whitelist)
                /\ concurrency)
               => Outcome(response) = "IPNotAllowed"

C1_Witness ==
    /\ Done /\ FullGate /\ HasProfile
    /\ ~request.user.is_superuser
    /\ TheProfile.role = "SUPER_ADMIN"
    /\ TheProfile.ip_whitelist = <<"10.0.0.1">>
    /\ response = IpDenied("10.0.0.5")
    /\ invoked = 0

\* the view is wrapped in require_permissions alone
MultiGate == request.decorators = <<"require_permissions">>

\* C9: for an authenticated principal, require_permissions calls the view
\* exactly when has_permission holds for every listed permission; otherwise
\* it answers 403 naming the first listed permission that fails, even when
\* all the others pass.
C9_AllPermissionsRequired ==
    (Done /\ MultiGate /\ is_authenticated(request.user)) =>
        LET required == request.permissions
            failing == {i \in DOMAIN required :
                           ~Passes(has_permission(request.user, required[i]))}
        IN  IF failing = {}
            THEN response = ViewResponse /\ invoked = 1
            ELSE /\ Outcome(response) = "PermissionDenied"
                 /\ response.missing =
                       required[CHOOSE i \in failing : \A j \in failing : i <= j]
                 /\ invoked = 0

C9_Witness ==
    /\ Done /\ MultiGate /\ HasProfile
    /\ ~request.user.is_superuser
    /\ TheProfile.role = "VIEWER"
    /\ request.permissions = <<drawing_read, drawing_upload>>
    /\ Outcome(response) = "PermissionDenied"
    /\ response.missing = drawing_upload

\* ------------------------------------------------------------ domain access
\* a wildcard over one namespace, such as 'drawing.*': a non-empty prefix that
\* does not itself begin with '*', followed by '*'
NamespaceWildcard(pattern) ==
    /\ Len(pattern) >= 2
    /\ pattern[Len(pattern)] = "*"
    /\ pattern[1] /= "*"

\* C11: for a principal with a profile, can_access_domain is true exactly when
\* the domain is the profile's primary domain, or is one of its secondary
\* domains, or some pattern of the role grants the permission '*'; a role
\* holding only namespace wildcards such as 'drawing.*' opens no domain.
C11_DomainAccess ==
    (Returned("can_access_domain") /\ HasProfile) =>
        /\ response = Ret(\/ TheProfile.primary_domain = request.domain
                          \/ \E i \in DOMAIN TheProfile.secondary_domains :
                                TheProfile.secondary_domains[i] = request.domain
                          \/ \E i \in DOMAIN ThePatterns :
                                Grants(ThePatterns[i], star))
        /\ ( /\ \A i \in DOMAIN ThePatterns : NamespaceWildcard(ThePatterns[i])
             /\ TheProfile.primary_domain /= request.domain
             /\ \A i \in DOMAIN TheProfile.secondary_domains :
                   TheProfile.secondary_domains[i] /= request.domain )
           => response = Ret(FALSE)

C11_Witness ==
    /\ Returned("can_access_domain") /\ HasProfile
    /\ ThePatterns = <<drawing_star, simulation_star>>
    /\ TheProfile.primary_domain = "process"
    /\ TheProfile.secondary_domains = <<"safety">>
    /\ request.domain = "upstream"
    /\ response = Ret(FALSE)

\* ------------------------------------------- calls that write roles and profiles
\* Each call below is one whole handler run to its return: the rows it leaves
\* and what it answers.  pc.i counts the calls made.

MaxCalls == 2

SeedCodes == {roles_config[i].code : i \in DOMAIN roles_config}

config_of(code) == roles_config[CHOOSE i \in DOMAIN roles_config :
                                   roles_config[i].code = code]

\* the role register() creates when no role is named 'ENGINEER'
EngRole ==
    ERPRoleRow("ENGINEER", "Standard engineering access",
               <<drawing_read, drawing_analyze, simulation_read>>,
               "/engineer/workspace/")

\* a role added by hand under its own code, named like one of the seed roles
GuestRole == ERPRoleRow("Viewer", "Guests", <<drawing_read>>, "/guest/")

\* rows other than the seeded ones that the table may hold
ExtraRoles == {<<>>, [c \in {"ENG"} |-> EngRole], [c \in {"VIEW"} |-> GuestRole]}

\* ERPRole tables a call may find: any of the seed codes present, as seeded or
\* with permissions edited since, next to the extra rows
StartingRoleStores ==
    {[c \in S \cup DOMAIN extra |->
         IF c \in DOMAIN extra THEN extra[c]
         ELSE IF edited THEN [seed_row(config_of(c)) EXCEPT !.permissions = <<drawing_read>>]
         ELSE seed_row(config_of(c))] :
        S \in SUBSET SeedCodes, edited \in BOOLEAN, extra \in ExtraRoles}

\* the users table is the domain of profiles: no users, or one without profile
StartingProfiles == {<<>>} \cup {[id \in {u} |-> NoProfile] : u \in UserIds}

with_profile(store, id, row) ==
    [u \in DOMAIN store \cup {id} |-> IF u = id THEN row ELSE store[u]]

Called(fn, data, new_roles, new_profiles, result) ==
    /\ pc.step \in {"call", "returned"}
    /\ pc.i < MaxCalls
    /\ request' = [NoRequest EXCEPT !.fn = fn, !.data = data]
    /\ roles' = new_roles
    /\ profiles' = new_profiles
    /\ response' = result
    /\ pc' = Pc("returned", 0, pc.i + 1)
    /\ UNCHANGED <<sessions, clock, invoked, db, history>>

\* create_default_roles() called outside any transaction: every get_or_create
\* commits on its own
CreateDefaultRoles ==
    LET outcome == create_default_roles(roles) IN
    Called("create_default_roles", <<>>, outcome.roles, profiles, outcome.result)

\* the id of the user with the command's --admin-email
AdminUserId == CHOOSE id \in UserIds : \A other \in UserIds : id <= other

\* manage.py setup_erp: Command.handle, all of it inside transaction.atomic()
SetupErp ==
    \E skip_user_creation \in BOOLEAN :
        LET options == [skip_user_creation |-> skip_user_creation]
            outcome == create_default_roles(roles)
            had_user == AdminUserId \in DOMAIN profiles
            created == ~had_user \/ profiles[AdminUserId] = NoProfile
            erp_profile_row ==
                IF created THEN NewProfile("SUPER_ADMIN", "upstream")
                ELSE [profiles[AdminUserId] EXCEPT !.role = "SUPER_ADMIN"]
        IN  IF outcome.result.tag = "raise"
            THEN Called("setup_erp", options, roles, profiles, Raise("CommandError"))
            ELSE Called("setup_erp", options, outcome.roles,
                        IF skip_user_creation THEN profiles
                        ELSE with_profile(profiles, AdminUserId, erp_profile_row),
                        Ret([roles_created |-> outcome.result.val]))

\* what the REST views answer
Created(id) == [status |-> 201, success |-> TRUE, user |-> id]
BadRequest == [status |-> 400, success |-> FALSE]
ServerError == [status |-> 500, success |-> FALSE]

\* POST register_user: data.email names the user, here by id.  The request
\* runs in one transaction (ATOMIC_REQUESTS): a failed INSERT undoes the user.
RegisterUser ==
    \E email \in UserIds, extra \in {<<>>, [primary_domain |-> "safety"]} :
        LET data == [k \in {"email"} \cup DOMAIN extra |->
                        IF k = "email" THEN email ELSE extra[k]]
            named == {c \in DOMAIN roles : roles[c].name = "ENGINEER"}
            default_role == IF named /= {} THEN CHOOSE c \in named : TRUE ELSE "ENG"
            new_roles == IF named /= {} THEN roles ELSE with_row(roles, "ENG", EngRole)
        IN  IF email \in DOMAIN profiles
            THEN Called("register_user", data, roles, profiles, BadRequest)
            ELSE IF named = {} /\ "ENG" \in DOMAIN roles
            THEN Called("register_user", data, roles, profiles, ServerError)
            ELSE Called("register_user", data, new_roles,
                        with_profile(profiles, email,
                            NewProfile(default_role,
                                       dict_get(data, "primary_domain", "process"))),
                        Created(email))

\* the literal default of data.get('max_concurrent_sessions', 2)
AdminCreatedMaxConcurrentSessions == 2

\* POST create_user_with_permissions
CreateUserWithPermissions ==
    \E email \in UserIds, role \in {"VIEWER", "ENGINEER"},
       extra \in {<<>>} \cup {[max_concurrent_sessions |-> m] : m \in 1..MaxSessions} :
        LET data == [k \in {"email", "role"} \cup DOMAIN extra |->
                        IF k = "email" THEN email
                        ELSE IF k = "role" THEN role ELSE extra[k]]
        IN  IF email \in DOMAIN profiles
            THEN Called("create_user_with_permissions", data, roles, profiles,
                        BadRequest)
            ELSE IF role \notin DOMAIN roles
            THEN Called("create_user_with_permissions", data, roles,
                        with_profile(profiles, email, NoProfile), BadRequest)
            ELSE Called("create_user_with_permissions", data, roles,
                        with_profile(profiles, email,
                            [NewProfile(role, dict_get(data, "primary_domain", "upstream"))
                                EXCEPT !.max_concurrent_sessions =
                                    dict_get(data, "max_concurrent_sessions",
                                             AdminCreatedMaxConcurrentSessions)]),
                        Created(email))

\* POST update_user_role(user_id) with role_id in the form
UpdateUserRole ==
    \E user_id \in UserIds, role_id \in {"VIEWER", "ENGINEER"} :
        LET data == [user_id |-> user_id, role_id |-> role_id] IN
        IF user_id \notin DOMAIN profiles \/ role_id \notin DOMAIN roles
        THEN Called("update_user_role", data, roles, profiles, ServerError)
        ELSE Called("update_user_role", data, roles,
                    with_profile(profiles, user_id,
                        IF profiles[user_id] = NoProfile
                        THEN NewProfile(role_id, "upstream")
                        ELSE [profiles[user_id] EXCEPT !.role = role_id]),
                    [status |-> 200, success |-> TRUE])

InitWrites ==
    /\ Idle
    /\ request = NoRequest
    /\ sessions = {}
    /\ clock = Midweek

\* seeding, from any table
InitSeed ==
    /\ InitWrites
    /\ roles \in StartingRoleStores
    /\ profiles = <<>>

NextSeed ==
    \/ CreateDefaultRoles
    \/ SetupErp
    \/ RegisterUser

SpecSeed == InitSeed /\ [][NextSeed]_vars

\* creating profiles, before and after the roles were seeded
InitProfiles ==
    /\ InitWrites
    /\ roles \in {<<>>, SeededRoles}
    /\ profiles \in StartingProfiles

NextProfiles ==
    \/ SetupErp
    \/ RegisterUser
    \/ CreateUserWithPermissions
    \/ UpdateUserRole

SpecProfiles == InitProfiles /\ [][NextProfiles]_vars

\* --------------------------------------------------------- seeding the roles
\* this step is a call of fn
Calls(fn) == pc'.i = pc.i + 1 /\ request'.fn = fn

\* no row holds the name of a seed role under a code other than that role's
NoNameClash ==
    \A i \in DOMAIN roles_config :
        ~name_taken(roles, roles_config[i].name, roles_config[i].code)

\* what a seeding call must do to the table, and report as created
SeedsIdempotently(created_roles) ==
    /\ \A c \in DOMAIN roles : c \in DOMAIN roles' /\ roles'[c] = roles[c]
    /\ DOMAIN roles' = DOMAIN roles \cup SeedCodes
    /\ {created_roles[i] : i \in DOMAIN created_roles} = SeedCodes \ DOMAIN roles
    /\ Len(created_roles) = Cardinality(SeedCodes \ DOMAIN roles)

\* the seeding step, when the previous call was a seeding that returned
SecondConsecutive ==
    /\ pc.step = "returned"
    /\ request.fn = "create_default_roles"
    /\ response.tag = "return"

SuperAdminPatterns == <<star>>

ProjectManagerPatterns ==
    <<project_star, drawing_read, drawing_comment, drawing_approve,
      simulation_read, team_read, reports_generate, ai_query>>

SeniorEngineerPatterns ==
    <<drawing_star, simulation_star, ai_query, ai_advanced, project_read,
      project_modify, safety_analyze, compliance_check, reports_generate>>

EngineerPatterns ==
    <<drawing_read, drawing_upload, drawing_analyze, drawing_comment,
      simulation_create, simulation_read, simulation_run, ai_query,
      project_read, reports_generate>>

AnalystPatterns ==
    <<drawing_read, simulation_read, ai_query, reports_generate, data_export,
      project_read>>

ViewerPatterns == <<drawing_read, simulation_read, project_read, reports_generate>>

\* C18: called on an empty table, create_default_roles creates exactly the six
\* roles SUPER_ADMIN, PROJECT_MANAGER, SENIOR_ENGINEER, ENGINEER, ANALYST and
\* VIEWER, each with exactly its listed patterns in the listed order.
C18_SixSeedRoles ==
    [][(Calls("create_default_roles") /\ roles = <<>>) =>
          /\ DOMAIN roles' = {"SUPER_ADMIN", "PROJECT_MANAGER", "SENIOR_ENGINEER",
                              "ENGINEER", "ANALYST", "VIEWER"}
          /\ roles'["SUPER_ADMIN"].permissions = SuperAdminPatterns
          /\ roles'["PROJECT_MANAGER"].permissions = ProjectManagerPatterns
          /\ roles'["SENIOR_ENGINEER"].permissions = SeniorEngineerPatterns
          /\ roles'["ENGINEER"].permissions = EngineerPatterns
          /\ roles'["ANALYST"].permissions = AnalystPatterns
          /\ roles'["VIEWER"].permissions = ViewerPatterns
          /\ Len(response'.val) = 6]_vars

C18_Witness ==
    /\ Returned("create_default_roles")
    /\ pc.i = 1
    /\ Len(response.val) = 6
    /\ Cardinality(DOMAIN roles) = 6

\* --------------------------------------------------------- creating profiles
\* this step inserts the UserERPProfile row of user u
ProfileCreated(u) ==
    /\ u \notin DOMAIN profiles \/ profiles[u] = NoProfile
    /\ u \in DOMAIN profiles'
    /\ profiles'[u] /= NoProfile

\* the call of this step carries no 'max_concurrent_sessions'
NoCeilingSupplied == "max_concurrent_sessions" \notin DOMAIN request'.data

\* C19: every profile row inserted by register_user, create_user_with_permissions,
\* update_user_role or setup_erp, in a call that supplies no session ceiling,
\* has max_concurrent_sessions = 3.
C19_NewProfileCeilingIsThree ==
    [][\A u \in UserIds :
          (ProfileCreated(u) /\ NoCeilingSupplied)
              => profiles'[u].max_concurrent_sessions = 3]_vars

\* ------------------------------------------------------ end-to-end scenarios
\* an ordinary principal with the seeded Viewer role, no IP whitelist, no
\* access hours, one live session and a ceiling of 3, behind the full stack
ViewerScenario ==
    /\ Done /\ FullGate
    /\ HasProfile /\ ~request.user.is_superuser
    /\ TheProfile.role = "VIEWER"
    /\ roles["VIEWER"].permissions = ViewerPatterns
    /\ TheProfile.ip_whitelist = <<>>
    /\ TheProfile.access_hours = <<>>
    /\ TheProfile.max_concurrent_sessions = 3
    /\ Cardinality(OwnLiveSessions) = 1

\* C17: in the Viewer scenario the stack calls the view for 'drawing.read'
\* whatever the client address and the time, and answers 403 naming
\* 'drawing.upload' as the required permission when that is requested.
C17_ViewerScenario ==
    ViewerScenario =>
        /\ request.permission = drawing_read =>
              (response = ViewResponse /\ invoked = 1)
        /\ request.permission = drawing_upload =>
              /\ Outcome(response) = "PermissionDenied"
              /\ response.required_permission = drawing_upload
              /\ invoked = 0

C17_Witness ==
    /\ ViewerScenario
    /\ request.permission = drawing_upload
    /\ get_client_ip(request.META) = "10.0.0.5"
    /\ clock = TimeAt(6, 12, 0)
    /\ response.status = 403

\* ------------------------------------------------------- transport statuses
\* the wrapper that answered, when one did
Answering == request.decorators[pc.layer]

AnsweredBy(decorators) ==
    /\ Done
    /\ pc.layer \in DOMAIN request.decorators
    /\ Answering \in decorators

\* the status and payload of each denial an authenticated principal can get
DenialStatuses ==
    LET u == request.user
        ip == get_client_ip(request.META)
        concurrency == Passes(check_concurrent_sessions(u))
        address == Passes(is_ip_allowed(u, ip))
        hours == Passes(is_access_time_allowed(u))
    IN  /\ (AnsweredBy({"enhanced_login_required"}) /\ is_authenticated(u)) =>
              IF ~concurrency
              THEN /\ response.status = 429
                   /\ response.action = "logout_other_sessions"
              ELSE IF ~address
              THEN response.status = 403 /\ response.ip = ip
              ELSE response.status = 403 /\ ~hours
        /\ (AnsweredBy({"require_permission", "require_permissions",
                        "require_role", "require_domain_access"})
               /\ is_authenticated(u)) =>
              response.status = 403

\* the 401 answer: an error text and where to log in
Is401(r) ==
    /\ r.status = 401
    /\ DOMAIN r = {"status", "error", "redirect"}
    /\ r.redirect = "/login/"

\* C13 as stated: the same statuses, and every wrapper answers an
\* unauthenticated principal 401
C13_EveryGateAnswers401 ==
    Done => /\ DenialStatuses
            /\ ~is_authenticated(request.user) => Is401(response)

\* C13: each denial has one fixed status: 429 with action
\* 'logout_other_sessions' for the session limit, 403 carrying the ip for the
\* whitelist, 403 for the access hours, 403 for a permission, role or domain
\* denial; an unauthenticated principal gets 401 with {error, redirect} from
\* require_permission, require_permissions, require_role and
\* require_domain_access, and a 302 redirect to /login/ from
\* enhanced_login_required.
C13_DenialStatuses ==
    Done => /\ DenialStatuses
            /\ ~is_authenticated(request.user) =>
                  /\ pc.layer = 1
                  /\ invoked = 0
                  /\ IF Answering = "enhanced_login_required"
                     THEN response.status = 302 /\ response.location = "/login/"
                     ELSE Is401(response)

C13_Witness ==
    /\ AnsweredBy({"enhanced_login_required"})
    /\ request.user = AnonymousUser
    /\ response.status = 302

\* ------------------------------------------------------------- no side effects
\* C14: no step of any wrapper (authentication, concurrency, IP, time,
\* permission, role or domain check, with any outcome) changes the ERPRole,
\* UserERPProfile or Session tables: no session is created, refreshed or deleted.
C14_DecisionsWriteNothing ==
    [][roles' = roles /\ profiles' = profiles /\ sessions' = sessions]_vars

\* a request turned away over the session limit, all its sessions still there
C14_Witness ==
    /\ AnsweredBy({"enhanced_login_required"})
    /\ response.status = 429
    /\ HasProfile
    /\ Cardinality(OwnLiveSessions) = MaxSessions
    /\ \E s \in sessions : s.expire_date < clock

\* ------------------------------------------------------ the database failing
\* The database stops answering after the middleware resolved request.user
\* and before the first check of the outermost wrapper reads anything: no
\* profile or role is cached on request.user yet.
Outage ==
    /\ db = "up"
    /\ pc.layer = 1
    /\ \/ pc.step \in {"concurrency", "permission", "role", "domain"}
       \/ pc.step = "loop" /\ pc.i = 1
    /\ db' = "down"
    /\ UNCHANGED <<roles, profiles, sessions, clock, request, pc, response,
                   invoked, history>>

NextOutage ==
    \/ Next
    \/ Outage

SpecOutage == Init /\ [][NextOutage]_vars

\* the step at pc runs a query: every check but has_permission for a superuser
StepReadsStore ==
    \/ pc.step \in {"concurrency", "ip", "time", "role", "domain"}
    \/ pc.step = "permission" /\ ~request.user.is_superuser
    \/ /\ pc.step = "loop" /\ pc.i <= Len(request.permissions)
       /\ ~request.user.is_superuser

MaxEvaluations == 2

\* the request just answered arrives again: same principal, permission,
\* address and time, on the same tables
Resubmit ==
    /\ Done
    /\ Len(history) + 1 < MaxEvaluations
    /\ history' = Append(history, [fn |-> request.fn, response |-> response,
                                   invoked |-> invoked])
    /\ pc' = Pc("auth", 1, 0)
    /\ response' = None
    /\ invoked' = 0
    /\ UNCHANGED <<roles, profiles, sessions, clock, request, db>>

NextTwice ==
    \/ Next
    \/ Resubmit

SpecTwice == Init /\ [][NextTwice]_vars

AdminLowersCeiling ==
    /\ pc = Pc("auth", 1, 0)
    /\ history = <<>>
    /\ HasProfile
    /\ \E new_max \in 1..MaxSessions :
          /\ new_max < TheProfile.max_concurrent_sessions
          /\ new_max < Cardinality(OwnLiveSessions)
          /\ profiles' = [profiles EXCEPT
                            ![request.user.id].max_concurrent_sessions = new_max]
          /\ history' = <<[fn |-> "lower_max_concurrent_sessions",
                           user |-> request.user.id,
                           old_max |-> TheProfile.max_concurrent_sessions,
                           held |-> OwnLiveSessions,
                           table |-> sessions]>>
    /\ UNCHANGED <<roles, sessions, clock, request, pc, response, invoked, db>>

NextLowered ==
    \/ Next
    \/ AdminLowersCeiling

SpecLowered == Init /\ [][NextLowered]_vars

\* the ceiling was lowered under sessions that were within it until then
LoweredUnderLiveSessions ==
    /\ history /= <<>>
    /\ history[1].fn = "lower_max_concurrent_sessions"
    /\ Cardinality(history[1].held) < history[1].old_max

\* C16: after max_concurrent_sessions was lowered below the number of live
\* sessions of a principal, requests of that principal still pass the
\* concurrency check of enhanced_login_required, and no session was removed.
C16_SessionsOverLoweredCeilingStillPass ==
    (Done /\ LoweredUnderLiveSessions
        /\ request.decorators[1] = "enhanced_login_required") =>
        /\ response.status /= 429
        /\ sessions = history[1].table

\* ------------------------------------------------------------ short-circuiting
\* every check of one wrapper passes for the user object u
LayerPassesFor(u, decorator) ==
    /\ is_authenticated(u)
    /\ CASE decorator = "enhanced_login_required" ->
              /\ Passes(check_concurrent_sessions(u))
              /\ Passes(is_ip_allowed(u, get_client_ip(request.META)))
              /\ Passes(is_access_time_allowed(u))
         [] decorator = "require_permission" ->
              Passes(has_permission(u, request.permission))
         [] decorator = "require_permissions" ->
              \A i \in DOMAIN request.permissions :
                  Passes(has_permission(u, request.permissions[i]))
         [] decorator = "require_role" ->
              /\ get_user_role(u).val /= None
              /\ in_list(get_user_role(u).val.code, request.role_codes)
         [] decorator = "require_domain_access" ->
              Passes(can_access_domain(u, request.domain))

LayerPasses(decorator) == LayerPassesFor(request.user, decorator)

\* the check the request stands at fails
CheckAtPcFails ==
    LET u == request.user IN
    CASE pc.step = "auth" -> ~is_authenticated(u)
      [] pc.step = "concurrency" -> ~Passes(check_concurrent_sessions(u))
      [] pc.step = "ip" -> ~Passes(is_ip_allowed(u, get_client_ip(request.META)))
      [] pc.step = "time" -> ~Passes(is_access_time_allowed(u))
      [] pc.step = "permission" -> ~Passes(has_permission(u, request.permission))
      [] pc.step = "loop" ->
            /\ pc.i <= Len(request.permissions)
            /\ ~Passes(has_permission(u, request.permissions[pc.i]))
      [] pc.step = "role" -> ~LayerPasses("require_role")
      [] pc.step = "domain" -> ~Passes(can_access_domain(u, request.domain))
      [] OTHER -> FALSE

\* C21: a check that fails ends the request at once with its denial, so no
\* later check and no view body runs after it and nothing runs after an
\* answer; the view body runs once when every check of every wrapper passes
\* and never otherwise.
C21_ShortCircuit ==
    [][/\ pc.step /= "done"
       /\ CheckAtPcFails =>
             /\ pc'.step = "done"
             /\ response' /= ViewResponse
             /\ invoked' = 0
       /\ pc'.step = "done" =>
             invoked' = IF \A l \in DOMAIN request.decorators :
                              LayerPasses(request.decorators[l])
                        THEN 1 ELSE 0]_vars

\* the first of several failing checks answered, and the view did not run
C21_Witness ==
    /\ Done /\ FullGate /\ HasProfile
    /\ pc.layer = 1
    /\ ~Passes(check_concurrent_sessions(request.user))
    /\ ~Passes(is_ip_allowed(request.user, get_client_ip(request.META)))
    /\ ~Passes(has_permission(request.user, request.permission))
    /\ response = SessionsExceeded
    /\ invoked = 0

\* ------------------------------------- evaluations interleaved with admin edits
\* Each ORM query of a request sees what is committed when it runs; a related
\* object, once queried, stays on the object that asked for it until the
\* request ends (user.erp_profile on request.user, profile.role on that profile).
MaxEdits == 2

\* the user object after `user.erp_profile` was read
with_erp_profile(user) ==
    IF user.kind = "user" /\ "erp_profile" \notin DOMAIN user
    THEN user @@ [erp_profile |-> profiles[user.id]]
    ELSE user

\* the user object after `user.erp_profile.role` was read
with_role(user) ==
    LET u == with_erp_profile(user) IN
    IF /\ u.kind = "user"
       /\ u.erp_profile /= NoProfile
       /\ "role_row" \notin DOMAIN u.erp_profile
    THEN [u EXCEPT !.erp_profile = @ @@ [role_row |-> roles[@.role]]]
    ELSE u

\* the user object after has_permission ran on it
with_permissions(user) ==
    IF user.kind = "user" /\ ~user.is_superuser THEN with_role(user) ELSE user

\* a user object as the authentication middleware makes it for a new request
fresh(user) == [kind |-> user.kind, id |-> user.id, is_superuser |-> user.is_superuser]

Snapshot(fn) == [fn |-> fn, roles |-> roles', profiles |-> profiles']

Edits == {k \in DOMAIN history : history[k].fn \in {"update_user_role", "edit_permissions"}}

\* the position of the current evaluation's start in the history, 0 before it
Started ==
    IF \E k \in DOMAIN history : history[k].fn = "start"
    THEN CHOOSE k \in DOMAIN history :
            /\ history[k].fn = "start"
            /\ \A j \in DOMAIN history : history[j].fn = "start" => j <= k
    ELSE 0

\* one check of a wrapper: the user object keeps what the check fetched
Decide(result, denial, step, i, user) ==
    /\ request' = [request EXCEPT !.user = user]
    /\ IF ~result.val
       THEN /\ response' = denial
            /\ pc' = Pc("done", pc.layer, 0)
       ELSE /\ response' = response
            /\ pc' = IF step /= "view_func" THEN Pc(step, pc.layer, i)
                     ELSE IF pc.layer + 1 > Len(request.decorators)
                     THEN Pc("view", pc.layer + 1, 0)
                     ELSE Pc("auth", pc.layer + 1, 0)
    /\ UNCHANGED <<roles, profiles, sessions, clock, invoked, db, history>>

\* `if not request.user.is_authenticated` of either wrapper; the outermost one
\* is where the evaluation starts
EvalAuth ==
    /\ pc.step = "auth"
    /\ pc.layer \in 1..Len(request.decorators)
    /\ LET decorator == request.decorators[pc.layer] IN
       /\ IF ~is_authenticated(request.user)
          THEN /\ response' = IF decorator = "enhanced_login_required"
                              THEN LoginRedirect ELSE AuthenticationRequired
               /\ pc' = Pc("done", pc.layer, 0)
          ELSE /\ response' = response
               /\ pc' = CASE decorator = "enhanced_login_required" ->
                               Pc("concurrency", pc.layer, 0)
                          [] decorator = "require_permission" ->
                               Pc("permission", pc.layer, 0)
                          [] decorator = "require_permissions" ->
                               Pc("loop", pc.layer, 1)
    /\ UNCHANGED <<roles, profiles, sessions, clock, request, invoked, db>>
    /\ history' = IF pc.layer = 1 THEN Append(history, Snapshot("start")) ELSE history

\* the query of user.erp_profile, ahead of the rest of the check that asked
QueryProfile ==
    /\ pc.step \in {"concurrency", "ip", "time", "permission", "loop"}
    /\ pc.step \in {"permission", "loop"} => ~request.user.is_superuser
    /\ "erp_profile" \notin DOMAIN request.user
    /\ request' = [request EXCEPT !.user = with_erp_profile(@)]
    /\ UNCHANGED <<roles, profiles, sessions, clock, pc, response, invoked, db, history>>

EvalConcurrency ==
    /\ At("enhanced_login_required", "concurrency")
    /\ Decide(check_concurrent_sessions(request.user), SessionsExceeded, "ip", 0,
              with_erp_profile(request.user))

EvalIp ==
    /\ At("enhanced_login_required", "ip")
    /\ LET client_ip == get_client_ip(request.META) IN
       Decide(is_ip_allowed(request.user, client_ip), IpDenied(client_ip), "time", 0,
              with_erp_profile(request.user))

EvalTime ==
    /\ At("enhanced_login_required", "time")
    /\ Decide(is_access_time_allowed(request.user), HoursDenied, "view_func", 0,
              with_erp_profile(request.user))

EvalPermission ==
    /\ At("require_permission", "permission")
    /\ Decide(has_permission(request.user, request.permission),
              InsufficientPermissions(request.permission), "view_func", 0,
              with_permissions(request.user))

EvalLoop ==
    /\ At("require_permissions", "loop")
    /\ IF pc.i > Len(request.permissions)
       THEN Decide(Ret(TRUE), None, "view_func", 0, request.user)
       ELSE LET permission == request.permissions[pc.i] IN
            Decide(has_permission(request.user, permission),
                   MissingPermission(permission, request.permissions,
                                     get_user_permissions(request.user).val),
                   "loop", pc.i + 1,
                   IF Passes(has_permission(request.user, permission))
                   THEN with_permissions(request.user)
                   ELSE with_role(request.user))

\* update_user_role on the requesting user, committed by another request
AdminUpdatesRole ==
    /\ Cardinality(Edits) < MaxEdits
    /\ request.user.kind = "user"
    /\ profiles[request.user.id] /= NoProfile
    /\ \E code \in {"VIEWER", "ANALYST"} :
          /\ code /= profiles[request.user.id].role
          /\ profiles' = [profiles EXCEPT ![request.user.id].role = code]
    /\ roles' = roles
    /\ history' = Append(history, Snapshot("update_user_role"))
    /\ UNCHANGED <<sessions, clock, request, pc, response, invoked, db>>

\* an administrator grants or revokes one permission in one role's list
AdminEditsPermissions ==
    /\ Cardinality(Edits) < MaxEdits
    /\ \E code \in {"VIEWER"}, permission \in {drawing_read, drawing_upload} :
          LET old == roles[code].permissions
              new == IF in_list(permission, old)
                     THEN SelectSeq(old, LAMBDA p : p /= permission)
                     ELSE Append(old, permission)
          IN  roles' = [roles EXCEPT ![code].permissions = new]
    /\ profiles' = profiles
    /\ history' = Append(history, Snapshot("edit_permissions"))
    /\ UNCHANGED <<sessions, clock, request, pc, response, invoked, db>>

\* the next request answered with the user object of the one before
NextRequest_same_user ==
    /\ Done
    /\ Cardinality({k \in DOMAIN history : history[k].fn = "start"}) < MaxEvaluations
    /\ pc' = Pc("auth", 1, 0)
    /\ response' = None
    /\ invoked' = 0
    /\ UNCHANGED <<roles, profiles, sessions, clock, request, db>>
    /\ history' = Append(history, [fn |-> "answer", response |-> response])

\* the next request of the same principal for the same view: the middleware
\* makes a new user object for it
NextRequest ==
    /\ Done
    /\ Cardinality({k \in DOMAIN history : history[k].fn = "start"}) < MaxEvaluations
    /\ request' = [request EXCEPT !.user = fresh(@)]
    /\ pc' = Pc("auth", 1, 0)
    /\ response' = None
    /\ invoked' = 0
    /\ UNCHANGED <<roles, profiles, sessions, clock, db>>
    /\ history' = Append(history, [fn |-> "answer", response |-> response])

InitEdits ==
    /\ Arrived
    /\ db = "up"
    /\ roles = SeededRoles
    /\ clock = Midweek
    /\ sessions = SessionTable(clock, 1, 0, 0, 0)
    /\ profiles \in ProfilesOfUser1({NewProfile("VIEWER", "process")}, "ENGINEER")
    /\ request \in
          {[ViewRequest(u, d) EXCEPT !.META = [k \in {"REMOTE_ADDR"} |-> "10.0.0.1"],
                                     !.permission = p] :
              u \in Principals, p \in {drawing_read, drawing_upload},
              d \in {<<"enhanced_login_required", "require_permission">>,
                     <<"require_permission">>}}
          \cup
          {[ViewRequest(u, <<"require_permissions">>) EXCEPT !.permissions = l] :
              u \in Principals,
              l \in {<<drawing_read>>, <<drawing_read, drawing_upload>>}}

NextEdits ==
    \/ EvalAuth
    \/ QueryProfile
    \/ EvalConcurrency
    \/ EvalIp
    \/ EvalTime
    \/ EvalPermission
    \/ EvalLoop
    \/ View
    \/ AdminUpdatesRole
    \/ AdminEditsPermissions
    \/ NextRequest

SpecEdits == InitEdits /\ [][NextEdits]_vars

\* the permissions the request's wrappers require
Required ==
    (IF in_list("require_permission", request.decorators)
     THEN {request.permission} ELSE {})
    \cup
    (IF in_list("require_permissions", request.decorators)
     THEN {request.permissions[i] : i \in DOMAIN request.permissions} ELSE {})

\* in the committed tables of `snapshot`, the role of user `id` grants `permission`
GrantedIn(snapshot, id, permission) ==
    /\ snapshot.profiles[id] /= NoProfile
    /\ LET patterns == snapshot.roles[snapshot.profiles[id].role].permissions IN
       \E i \in DOMAIN patterns : Grants(patterns[i], permission)

\* the committed table states the current evaluation ran over
DuringEvaluation == {k \in DOMAIN history : k >= Started /\ Started > 0}

\* C22: whatever edits of the principal's profile or of role pattern lists
\* commit while a request is evaluated, the request ends with Allow or one of
\* the five denials, and an Allow of an ordinary principal means that each
\* required permission was granted by the principal's role in some table
\* state committed during the evaluation.
C22_AllowMeansGrantedDuringEvaluation ==
    Done =>
       /\ Outcome(response) \in {"Allow", "AuthenticationRequired", "PermissionDenied",
                                 "ConcurrentSessionLimitExceeded", "IPNotAllowed",
                                 "AccessHoursViolation"}
       /\ (response = ViewResponse /\ ~request.user.is_superuser) =>
             \A permission \in Required :
                \E k \in DuringEvaluation :
                   GrantedIn(history[k], request.user.id, permission)

\* no edit has committed since the current evaluation started
NoEditSinceStart == Started > 0 /\ \A k \in Edits : k < Started

\* C23: an evaluation that starts after an edit of a role's pattern list or of
\* a profile's role has committed decides on the edited tables: with no edit
\* committing while it runs, the view is reached exactly when every check
\* passes on the tables as they now are, for a user object that holds nothing
\* from earlier requests.
C23_EditsBindTheNextEvaluation ==
    (Done /\ NoEditSinceStart) =>
        (response = ViewResponse <=>
            \A l \in DOMAIN request.decorators :
                LayerPassesFor(fresh(request.user), request.decorators[l]))

\* allowed, then the permission was revoked or the role changed, then denied
C23_Witness ==
    /\ Done /\ NoEditSinceStart
    /\ ~request.user.is_superuser
    /\ response.status = 403
    /\ \E k \in DOMAIN history, j \in Edits :
          /\ history[k].fn = "answer"
          /\ history[k].response = ViewResponse
          /\ k < j

\* ------------------------------------------------- the session table over time
\* Logins of one principal that call check_concurrent_sessions and open a
\* session when it returned True, next to another user's sessions coming and
\* going and to time passing.
MaxLogins == 2
MaxTicks == 3
SessionAge == 2

Logins == 1..MaxLogins

ThePrincipal == request.user

NewKey == CHOOSE k \in 1..(Cardinality(sessions) + 1) :
             \A s \in sessions : s.session_key /= k

\* the rows of the principal's sessions, expired or not
OwnRows == {s \in sessions : s.session_data = AuthData(ThePrincipal.id)}

InitSessions ==
    /\ db = "up"
    /\ invoked = 0
    /\ history = <<>>
    /\ roles = [c \in {"R"} |-> RoleRow(<<drawing_read>>)]
    /\ clock = Midweek
    /\ request = [NoRequest EXCEPT !.fn = "login", !.user = RealUser(1, FALSE)]
    /\ \E m \in 0..MaxSessions :
          /\ profiles \in ProfilesOfUser1(
                {[NewProfile("R", "process") EXCEPT !.max_concurrent_sessions = m]}, "R")
          /\ sessions \in {SessionTable(clock, own, 0, other, 0) :
                              own \in 0..m, other \in 0..1}
    /\ pc = [a \in Logins |-> Pc("check", 0, 0)]
    /\ response = [a \in Logins |-> None]

\* a login attempt asks whether there is room for one more session; the
\* history notes a True given while another attempt that was told True has not
\* opened its session yet
LoginCheck(a) ==
    /\ pc[a].step = "check"
    /\ LET allowed == check_concurrent_sessions(ThePrincipal) IN
       /\ response' = [response EXCEPT ![a] = allowed]
       /\ pc' = [pc EXCEPT ![a] = Pc(IF Passes(allowed) THEN "create" ELSE "denied", 0, 0)]
       /\ history' = IF Passes(allowed) /\ \E b \in Logins \ {a} : pc[b].step = "create"
                     THEN <<[fn |-> "overlapping_logins"]>>
                     ELSE history
    /\ UNCHANGED <<roles, profiles, sessions, clock, request, invoked, db>>

\* the attempt that was told True opens its session
LoginCreate(a) ==
    /\ pc[a].step = "create"
    /\ sessions' = sessions \cup
          {SessionRow(NewKey, AuthData(ThePrincipal.id), clock + SessionAge)}
    /\ pc' = [pc EXCEPT ![a] = Pc("done", 0, 0)]
    /\ UNCHANGED <<roles, profiles, clock, request, response, invoked, db, history>>

\* a refused attempt is made again
LoginRetry(a) ==
    /\ pc[a].step = "denied"
    /\ pc' = [pc EXCEPT ![a] = Pc("check", 0, 0)]
    /\ UNCHANGED <<roles, profiles, sessions, clock, request, response, invoked, db,
                   history>>

\* another user logs in / a session of another user is removed
OtherLogin ==
    /\ Cardinality(sessions \ OwnRows) < 1
    /\ sessions' = sessions \cup {SessionRow(NewKey, AuthData(2), clock + SessionAge)}
    /\ UNCHANGED <<roles, profiles, clock, request, pc, response, invoked, db, history>>

OtherLogout ==
    /\ \E s \in sessions \ OwnRows : sessions' = sessions \ {s}
    /\ UNCHANGED <<roles, profiles, clock, request, pc, response, invoked, db, history>>

\* timezone.now() moves on by a minute
Tick ==
    /\ clock < Midweek + MaxTicks
    /\ clock' = clock + 1
    /\ UNCHANGED <<roles, profiles, sessions, request, pc, response, invoked, db, history>>

NextSessions ==
    \/ \E a \in Logins : LoginCheck(a)
    \/ \E a \in Logins : LoginCreate(a)
    \/ \E a \in Logins : LoginRetry(a)
    \/ OtherLogin
    \/ OtherLogout
    \/ Tick

SpecSessions == InitSessions /\ [][NextSessions]_vars

\* C24: check_concurrent_sessions for a principal depends on that principal's
\* unexpired sessions only: while the principal's own rows and ceiling stay as
\* they are, a step that leaves the set of its unexpired sessions alone
\* (another user's session created, expired or removed) leaves the result
\* alone, and a step in which some of its sessions expire never turns True
\* into False.
C24_OnlyOwnLiveSessionsCount ==
    [][(OwnRows' = OwnRows /\ profiles' = profiles) =>
          /\ OwnLiveSessions' = OwnLiveSessions =>
                check_concurrent_sessions(ThePrincipal)' =
                    check_concurrent_sessions(ThePrincipal)
          /\ Passes(check_concurrent_sessions(ThePrincipal)) =>
                Passes(check_concurrent_sessions(ThePrincipal))']_vars

\* time has passed, the principal holds as many rows as its ceiling, some of
\* them expired, so that it is allowed again, next to another user's session
C24_Witness ==
    /\ clock > Midweek
    /\ HasProfile
    /\ Cardinality(OwnRows) >= TheProfile.max_concurrent_sessions
    /\ OwnLiveSessions /= OwnRows
    /\ Passes(check_concurrent_sessions(ThePrincipal))
    /\ sessions \ OwnRows /= {}

\* ------------------------------------------- the concurrency check as a gate
\* the view's outermost wrapper is enhanced_login_required
SessionGated == request.decorators[1] = "enhanced_login_required"

\* C25: behind enhanced_login_required every unexpired session of the
\* principal counts, the one the request came on included: a principal with a
\* profile holding k such sessions gets past the concurrency step exactly when
\* k < max_concurrent_sessions, so with k = max_concurrent_sessions each of
\* them is answered 429, and with a ceiling of 1 a request that comes on a
\* session of the principal is always answered 429.
C25_RequestingSessionCounts ==
    (Done /\ SessionGated /\ HasProfile) =>
        LET k == Cardinality(OwnLiveSessions)
            max_sessions == TheProfile.max_concurrent_sessions
        IN  /\ response = SessionsExceeded <=> ~(k < max_sessions)
            /\ k = max_sessions => response.status = 429 /\ invoked = 0
            /\ (k >= 1 /\ max_sessions = 1) => response.status = 429 /\ invoked = 0

\* one session, a ceiling of one: the request on that session is refused
C25_Witness ==
    /\ Done /\ SessionGated /\ HasProfile
    /\ Cardinality(OwnLiveSessions) = 1
    /\ TheProfile.max_concurrent_sessions = 1
    /\ response = SessionsExceeded
    /\ invoked = 0

NextExpiry ==
    \/ \E a \in Logins : LoginCheck(a)
    \/ \E a \in Logins : LoginRetry(a)
    \/ OtherLogin
    \/ OtherLogout
    \/ Tick

SpecExpiry == InitSessions /\ [][NextExpiry]_vars /\ WF_vars(Tick)

\* C27: a principal with a ceiling of at least 1 that check_concurrent_sessions
\* refuses is allowed by it again later on, when no further session is opened
\* for it and time runs past the expiry of the sessions it has.
C27_DeniedEventuallyAllowed ==
    (/\ HasProfile
     /\ TheProfile.max_concurrent_sessions >= 1
     /\ check_concurrent_sessions(ThePrincipal) = Ret(FALSE))
    ~> Passes(check_concurrent_sessions(ThePrincipal))

\* an attempt was refused, the sessions have run out since, the next would pass
C27_Witness ==
    /\ HasProfile
    /\ TheProfile.max_concurrent_sessions >= 1
    /\ \E a \in Logins : response[a] = Ret(FALSE) /\ pc[a].step = "denied"
    /\ Cardinality(OwnRows) >= TheProfile.max_concurrent_sessions
    /\ OwnLiveSessions = {}
    /\ Passes(check_concurrent_sessions(ThePrincipal))

\* ------------------------------------------------ is_superuser and the gates
RoleGated == request.decorators = <<"require_role">>
DomainGated == request.decorators = <<"require_domain_access">>

\* C28: is_superuser counts in has_permission only. For any authenticated
\* principal, superuser or not, require_role reaches the view exactly when the
\* principal has a profile whose role code is among the required ones and
\* answers 403 otherwise, and require_domain_access answers 403 when there is
\* no profile.
C28_SuperuserOverridesPermissionsOnly ==
    (Done /\ is_authenticated(request.user)) =>
        /\ RoleGated =>
              /\ response = ViewResponse <=>
                    HasProfile /\ in_list(TheProfile.role, request.role_codes)
              /\ response /= ViewResponse =>
                    response.status = 403 /\ invoked = 0
        /\ (DomainGated /\ LacksProfile) =>
              response = DomainDenied(request.domain) /\ invoked = 0

\* a superuser without a profile refused by the role gate
C28_Witness ==
    /\ Done /\ RoleGated
    /\ request.user.is_superuser
    /\ LacksProfile
    /\ response = InsufficientRole(request.role_codes, None)
    /\ invoked = 0

\* ------------------------------------------------------------ the two matchers
\* C29: for an authenticated principal that is no superuser and has a role,
\* RoleBasedAccessControl.has_permission(user, permission) returns what
\* ERPRole.has_permission(permission) returns on that role, for every
\* permission string and every pattern list.
C29_MatchersAgree ==
    (Returned("has_permission") /\ OrdinaryWithRole) =>
        response = Ret(role_has_permission(ThePatterns, request.permission))

\* both say yes through a trailing-'*' pattern, and both say no next to it
C29_Witness ==
    /\ Returned("has_permission") /\ OrdinaryWithRole
    /\ ThePatterns = <<drawing_star>>
    /\ request.permission = drawing_read
    /\ response = Ret(TRUE)
    /\ role_has_permission(ThePatterns, request.permission)
    /\ ~role_has_permission(ThePatterns, drawingx_read)

\* ------------------------------------------------- windows with missing ends
\* C30: on a weekday that has an entry, a missing start counts as 0 and a
\* missing end as 23, so an entry with neither allows every hour; an entry
\* whose start is greater than its end (22 and 6) allows no hour of that day,
\* the hours from 22 on and up to 6 included.
C30_WindowDefaultsAndInversion ==
    (Returned("is_access_time_allowed") /\ HasProfile
        /\ Today \in DOMAIN TheProfile.access_hours)
    => LET w == TheProfile.access_hours[Today]
           s == IF "start" \in DOMAIN w THEN w.start ELSE 0
           e == IF "end" \in DOMAIN w THEN w.end ELSE 23
       IN  /\ response = Ret(s <= HourNow /\ HourNow <= e)
           /\ s > e => response = Ret(FALSE)
           /\ DOMAIN w = {} => response = Ret(TRUE)

\* 23:00 under a window from 22 to 6 is refused
C30_Witness ==
    /\ Returned("is_access_time_allowed") /\ HasProfile
    /\ Today \in DOMAIN TheProfile.access_hours
    /\ TheProfile.access_hours[Today] = [start |-> 22, end |-> 6]
    /\ HourNow = 23
    /\ response = Ret(FALSE)

=============================================================================
